---- MODULE Spec2Model ----
(***************************************************************************)
(* Verification model of the DMARC report pipeline (backend/).             *)
(*                                                                         *)
(* Part I models dmarc_ingest.process_dmarc_ingestion and the functions it *)
(* calls, one action per call to a collaborator (mailbox server, row       *)
(* store, audit sink), so that runs can fail, stop or interleave between   *)
(* any two such calls.                                                     *)
(***************************************************************************)
EXTENDS Integers, Sequences, FiniteSets, TLC

(***************************************************************************)
(* Bounds of the model.                                                    *)
(***************************************************************************)
MaxMsgs == 2            \* messages in the mailbox
MaxAttachments == 2     \* attachments in the mailbox
MaxRuns == 2            \* ingestion runs started in one behaviour
MaxFaults == 1          \* collaborator failures and process stops injected
RecordsPerReport == 2   \* <record> elements of one report
MaxOver == 2            \* unread messages beyond the cap of one batch
MaxCalls == 11          \* record_attempt calls made on the limiter
MaxTicks == 2           \* steps of the clock
MaxRecords == 2         \* <record> elements of a document
RateUnits == 4          \* a failure rate is counted in 1/RateUnits of a percent
MaxSignatures == 1      \* signatures of each kind counted by the DKIM analysis

(***************************************************************************)
(* Program constants.                                                      *)
(***************************************************************************)
max_retries == 3        \* process_dmarc_ingestion(..., max_retries: int = 3)
limit == 50             \* fetch_dmarc_emails(..., limit: int = 50)
max_attempts_per_hour == 60     \* IMAPRateLimiter.__init__
max_attempts_per_minute == 10
max_failed_attempts == 5
backoff_base == 60
backoff_max == 3600
cleanup_interval == 600
MinuteWindow == 60      \* minute_ago = current_time - 60
HourWindow == 3600      \* hour_ago = current_time - 3600

Runs == {1, 2}          \* 1: the scheduler's run, 2: a manually triggered run
user_id == "u1"
imap_config_id == "cfg1"

(***************************************************************************)
(* An attachment is either a payload parse_dmarc_xml rejects, or a report  *)
(* document; a report is identified by (report_id, org_name).              *)
(***************************************************************************)
Malformed == [kind |-> "malformed"]
ReportDocs ==
    { [kind |-> "report", report_id |-> "r1", org_name |-> o] : o \in {"orgA", "orgB"} }
Payloads == {Malformed} \cup ReportDocs

AttachmentLists ==
    UNION { [1..n -> Payloads] : n \in 0..MaxAttachments }

VARIABLES
    mailbox,        \* uid -> sequence of attachments of the message
    seen,           \* uid -> the message carries the \Seen flag
    dmarc_reports,  \* rows of table dmarc_reports
    dmarc_records,  \* rows of table dmarc_records
    audit_logs,     \* rows of table audit_logs
    last_polled,    \* number of updates of imap_configs.last_polled_at
    nextId,         \* next identifier the store generates for a report row
    runners,        \* the runs that may be started
    pc,             \* run -> position in process_dmarc_ingestion
    attempt,        \* run -> loop variable of the connection loop
    client,         \* run -> "none" | "open" | "closed"
    dmarc_emails,   \* run -> the batch fetch_dmarc_emails returned
    idx,            \* run -> position in the batch (1-based)
    results,        \* run -> the summary being built
    db_report_id,   \* run -> store_dmarc_report's new row id / return value
    exc,            \* run -> pending exception of the current step
    \* history of the current run
    connects,       \* run -> number of connect_imap calls
    stored,         \* run -> batch positions for which store_dmarc_report returned
    marked,         \* run -> batch positions after which mark_email_as_read was called
    submitted,      \* run -> audit actions handed to log_audit_event
    logouts,        \* run -> number of client.logout() calls
    hits,           \* run -> batch positions whose report was found already stored
    fetches,        \* run -> the search results and fetched batches of the run
    runFaults,      \* run -> failures injected into the current run
    \* history of the behaviour
    faults,         \* failures and stops injected so far
    runsStarted,    \* runs started so far
    returned,       \* report -> the identifiers store_dmarc_report returned for it
    raised_for,     \* report -> store_dmarc_report has raised for it
    stopPoint,      \* where the last stopped run was stopped
    \* Part II: the rate limiter (rate_limiter.IMAPRateLimiter)
    now,                  \* time.time(), in seconds
    connection_attempts,  \* owner -> timestamps of the recorded attempts
    failed_attempts,      \* owner -> consecutive failures
    blocked_until,        \* owner -> time the block ends
    last_cleanup,         \* time of the last purge
    ret,                  \* what the last call of is_rate_limited returned
    last_call,            \* the last call made on the limiter
    calls,                \* record_attempt calls made so far
    ticks,                \* clock steps made so far
    \* Part II: the entry points that open mailbox connections (api, scheduler)
    running,              \* the request handler the event loop is in the middle of
    opened,               \* the connect_imap calls of the runs: entry point, limiter state
    \* Part III: the parser (dmarc_parser.parse_dmarc_xml)
    xml_error,            \* the error of ET.fromstring on the document, if any
    xml_records,          \* the <record> elements of the document
    report_data,          \* what parse_dmarc_xml returned
    \* Part IV: the analysis (analysis_engine.DMARCAnalyzer)
    analysis_input,       \* what the store and the analyses give analyze_domain_reports
    analysis_result,      \* what analyze_domain_reports returned
    fn_ret,               \* the last call of a scoring function: arguments and value
    \* Part V: the recommendations (recommendation_engine.RecommendationEngine)
    rec_issues,           \* the issues of the analysis result given to the engine
    recommendations,      \* rows of table recommendations, in order of insertion
    rec_ret,              \* the last call: generate_recommendations or a status update
    \* Part VI: the credential encryption (crypto.CredentialEncryption)
    current_key_file,     \* content of current_key.json
    backup_keys,          \* the files of directory backup_keys
    encrypted,            \* every (ciphertext, key_id) encrypt_credential returned
    crypto_ret,           \* the last call of encrypt_credential or decrypt_credential
    \* Part VII: the attachment (dmarc_parser.extract_attachment)
    attachment,           \* the payload and the file name of the attachment
    extract_ret,          \* what extract_attachment returned
    \* Part VIII: concurrent callers of crypto.CredentialEncryption
    key_pc,               \* caller -> where it is in _get_current_key_info
    key_local             \* caller -> its local variables

Uids == DOMAIN mailbox  \* the uids of the messages in the folder

mailVars == <<mailbox, seen>>
dbVars == <<dmarc_reports, dmarc_records, nextId>>
auditVars == <<audit_logs, submitted>>
histVars == <<connects, stored, marked, logouts, hits, fetches>>
storeHist == <<returned, raised_for>>
ingestVars ==
    <<mailbox, seen, dmarc_reports, dmarc_records, audit_logs, last_polled, nextId,
      runners, pc, attempt, client, dmarc_emails, idx, results, db_report_id, exc,
      connects, stored, marked, submitted, logouts, hits, fetches, runFaults, faults,
      runsStarted, returned, raised_for, stopPoint>>
limiterVars == <<now, connection_attempts, failed_attempts, blocked_until, last_cleanup, ret>>
limiterHist == <<last_call, calls, ticks>>
apiVars == <<running, opened>>
parserVars == <<xml_error, xml_records, report_data>>
\* the state of the parts further down
analysisVars == <<analysis_input, analysis_result, fn_ret>>
recVars == <<rec_issues, recommendations, rec_ret>>
cryptoVars == <<current_key_file, backup_keys, encrypted, crypto_ret>>
extractVars == <<attachment, extract_ret>>
raceVars == <<key_pc, key_local>>
rest == <<extractVars, raceVars>>
beyond == <<analysisVars, recVars, cryptoVars, rest>>
core == <<ingestVars, limiterVars, limiterHist, apiVars, parserVars>>

(***************************************************************************)
(* Values of the state of Parts II and III, and their states at rest.      *)
(***************************************************************************)
EmptyDict == [k \in {} |-> 0]

\* is_rate_limited has not been called
NoReturn == [is_limited |-> FALSE, reason |-> "-", retry_after |-> {}]
NoCall == [op |-> "none", success |-> FALSE, unblocked |-> FALSE]

EntryPoints == {"create_imap_config", "process_emails", "trigger_user_processing",
                "process_config"}

\* parse_dmarc_xml has not been called
NoReport == [outcome |-> "none"]

IdleLimiter ==
    /\ now = 0
    /\ connection_attempts = EmptyDict
    /\ failed_attempts = EmptyDict
    /\ blocked_until = EmptyDict
    /\ last_cleanup = 0
    /\ ret = NoReturn
    /\ last_call = NoCall
    /\ calls = 0
    /\ ticks = 0

IdleApi ==
    /\ running = "idle"
    /\ opened = {}

IdleParser ==
    /\ xml_error = {}
    /\ xml_records = <<>>
    /\ report_data = NoReport

\* what process_dmarc_ingestion does not touch
NoInput == [reports |-> "none"]
NoResult == [outcome |-> "none"]
NoValue == [fn |-> "none"]

IdleAnalysis ==
    /\ analysis_input = NoInput
    /\ analysis_result = NoResult
    /\ fn_ret = NoValue

NoFile == [file |-> "absent"]

IdleRecommendations ==
    /\ rec_issues = <<>>
    /\ recommendations = <<>>
    /\ rec_ret = NoValue

IdleCrypto ==
    /\ current_key_file = NoFile
    /\ backup_keys = {}
    /\ encrypted = {}
    /\ crypto_ret = NoValue

NoAttachment == [payload |-> "none"]

IdleExtract ==
    /\ attachment = NoAttachment
    /\ extract_ret = NoValue

IdleRace ==
    /\ key_pc = <<>>
    /\ key_local = <<>>

IdleRest == IdleExtract /\ IdleRace

IdleBeyond == IdleAnalysis /\ IdleRecommendations /\ IdleCrypto /\ IdleRest

outside == <<limiterVars, limiterHist, apiVars, parserVars, beyond>>
vars == <<ingestVars, limiterVars, limiterHist, apiVars, parserVars, beyond>>

(***************************************************************************)
(* Helpers.                                                                *)
(***************************************************************************)
EmptyResults ==
    [processed |-> 0, errors |-> 0, duplicates |-> 0,
     reports |-> <<>>, error_details |-> <<>>]

LastN(s, n) == IF Len(s) > n THEN SubSeq(s, Len(s) - n + 1, Len(s)) ELSE s

\* the (uid, attachment position) pairs of one message, in walk() order
AttachmentsOf(uid) == [k \in 1..Len(mailbox[uid]) |-> <<uid, k>>]

RECURSIVE Flatten(_)
Flatten(uids) ==
    IF uids = <<>> THEN <<>>
    ELSE AttachmentsOf(Head(uids)) \o Flatten(Tail(uids))

PayloadOf(item) == mailbox[item[1]][item[2]]

\* The fault budget of the model: a failure or a stop may still be injected.
CanFail == faults < MaxFaults

Fault(p) ==
    /\ CanFail
    /\ faults' = faults + 1
    /\ runFaults' = [runFaults EXCEPT ![p] = @ + 1]

NoFault == UNCHANGED <<faults, runFaults>>


(***************************************************************************)
(* The row store, as the code uses it.                                     *)
(***************************************************************************)
\* the duplicate check with the org_name filter left out
ExistingIgnoringOrg(u, doc) ==
    { r \in dmarc_reports : r.user_id = u /\ r.report_id = doc.report_id }

\* the duplicate check comparing report_id with the wrong field of the report
ExistingWrongKey(u, doc) ==
    { r \in dmarc_reports :
        /\ r.user_id = u
        /\ r.report_id = doc.org_name
        /\ r.org_name = doc.org_name }

\* dmarc_reports.select('id').eq('user_id').eq('report_id').eq('org_name')
Existing(u, doc) ==
    { r \in dmarc_reports :
        /\ r.user_id = u
        /\ r.report_id = doc.report_id
        /\ r.org_name = doc.org_name }

\* report_record of store_dmarc_report, with the identifier the store generates
ReportRow(id, doc) ==
    [id |-> id, user_id |-> user_id, imap_config_id |-> imap_config_id,
     org_name |-> doc.org_name, report_id |-> doc.report_id, status |-> "processed"]

\* error_record of store_dmarc_report's exception handler
ErrorRow(id, doc) ==
    [id |-> id, user_id |-> user_id, imap_config_id |-> imap_config_id,
     org_name |-> doc.org_name, report_id |-> doc.report_id, status |-> "error"]

\* records_to_insert: one row per record of the report, keyed to the report row
RecordRows(id) == { [report_id |-> id, rec |-> k] : k \in 1..RecordsPerReport }

AuditRow(action, resource_type, resource_id) ==
    [user_id |-> user_id, action |-> action,
     resource_type |-> resource_type, resource_id |-> resource_id]

\* log_audit_event: the insert is attempted; its failure is logged and swallowed
log_audit_event(p, action, resource_type, resource_id) ==
    /\ submitted' = [submitted EXCEPT ![p] = @ \cup {action}]
    /\ \/ /\ audit_logs' = audit_logs \cup {AuditRow(action, resource_type, resource_id)}
          /\ NoFault
       \/ /\ UNCHANGED audit_logs
          /\ Fault(p)

\* the error handler counting the error without appending its detail
RecordErrorNoDetail(p, kind) ==
    results' = [results EXCEPT ![p].errors = @ + 1]

\* results['errors'] += 1; results['error_details'].append({...})
RecordError(p, kind) ==
    results' = [results EXCEPT
        ![p].errors = @ + 1,
        ![p].error_details = Append(@, [item |-> dmarc_emails[p][idx[p]], error |-> kind])]

\* results['processed'] += 1; results['reports'].append({...})
RecordProcessed(p) ==
    results' = [results EXCEPT
        ![p].processed = @ + 1,
        ![p].reports = Append(@, [id |-> db_report_id[p], item |-> dmarc_emails[p][idx[p]]])]

(***************************************************************************)
(* Initial states: every message unread, no row stored, no run started.    *)
(***************************************************************************)
RECURSIVE SumLen(_, _)
SumLen(mb, S) ==
    IF S = {} THEN 0
    ELSE LET u == CHOOSE x \in S : TRUE IN Len(mb[u]) + SumLen(mb, S \ {u})

\* One mailbox of each shape: the messages without attachment (no part of any
\* batch) have the highest uids, and the report documents are named in order
\* of appearance, orgB only after orgA.
OrgsInOrder(mb) ==
    \A u \in Uids : \A k \in 1..Len(mb[u]) :
        (mb[u][k].kind = "report" /\ mb[u][k].org_name = "orgB") =>
            \E v \in Uids : \E j \in 1..Len(mb[v]) :
                /\ mb[v][j].kind = "report" /\ mb[v][j].org_name = "orgA"
                /\ (v < u \/ (v = u /\ j < k))

Canonical(mb) ==
    /\ \A u, v \in Uids : (u < v /\ mb[u] = <<>>) => mb[v] = <<>>
    /\ OrgsInOrder(mb)

NoStop == [at |-> "none", item |-> <<0, 0>>, unread |-> FALSE, run |-> 0]

\* no message read, no row stored, no run started
InitRuns ==
    /\ seen = [u \in Uids |-> FALSE]
    /\ dmarc_reports = {}
    /\ dmarc_records = {}
    /\ audit_logs = {}
    /\ last_polled = 0
    /\ nextId = 1
    /\ pc = [p \in Runs |-> "idle"]
    /\ attempt = [p \in Runs |-> 0]
    /\ client = [p \in Runs |-> "none"]
    /\ dmarc_emails = [p \in Runs |-> <<>>]
    /\ idx = [p \in Runs |-> 1]
    /\ results = [p \in Runs |-> EmptyResults]
    /\ db_report_id = [p \in Runs |-> 0]
    /\ exc = [p \in Runs |-> FALSE]
    /\ connects = [p \in Runs |-> 0]
    /\ stored = [p \in Runs |-> {}]
    /\ marked = [p \in Runs |-> {}]
    /\ submitted = [p \in Runs |-> {}]
    /\ logouts = [p \in Runs |-> 0]
    /\ hits = [p \in Runs |-> {}]
    /\ fetches = [p \in Runs |-> <<>>]
    /\ returned = [d \in ReportDocs |-> <<>>]
    /\ raised_for = [d \in ReportDocs |-> FALSE]
    /\ stopPoint = NoStop
    /\ runFaults = [p \in Runs |-> 0]
    /\ faults = 0
    /\ runsStarted = 0

InitState == InitRuns /\ IdleLimiter /\ IdleApi /\ IdleParser /\ IdleBeyond

\* the pipeline at rest: no folder, no run
IdleIngest ==
    /\ mailbox = EmptyDict
    /\ runners = {}
    /\ InitRuns

InitCommon ==
    /\ mailbox \in [1..MaxMsgs -> AttachmentLists]
    /\ SumLen(mailbox, Uids) <= MaxAttachments
    /\ Canonical(mailbox)
    /\ InitState

\* one caller at a time: each run starts after the previous one has ended
Init == InitCommon /\ runners = {1}

\* A folder with more unread messages than one batch takes: MaxOver messages
\* beyond the cap.  Attachments are carried by the two messages next to the
\* cut, the last one left out and the first one taken; the others have none.
CapUids == 1..(limit + MaxOver)
CapCarriers == {MaxOver, MaxOver + 1}

InitCap ==
    /\ \E c \in [CapCarriers -> AttachmentLists] :
          mailbox = [u \in CapUids |-> IF u \in CapCarriers THEN c[u] ELSE <<>>]
    /\ SumLen(mailbox, Uids) <= MaxAttachments
    /\ OrgsInOrder(mailbox)
    /\ InitState
    /\ runners = {1}

\* the scheduler and a manual trigger work on the same mailbox at once
\* (every message carries one report)
InitConc ==
    /\ InitCommon
    /\ runners = Runs
    /\ \A u \in Uids : Len(mailbox[u]) = 1 /\ mailbox[u][1] \in ReportDocs

Ended(p) == pc[p] \in {"idle", "returned", "raised", "stopped"}

(***************************************************************************)
(* process_dmarc_ingestion, step by step.                                  *)
(***************************************************************************)
\* entry: results = {...}; client = None
StartRun(p) ==
    /\ p \in runners
    /\ Ended(p)
    /\ runsStarted < MaxRuns
    /\ runsStarted' = runsStarted + 1
    /\ pc' = [pc EXCEPT ![p] = "client"]
    /\ attempt' = [attempt EXCEPT ![p] = 0]
    /\ client' = [client EXCEPT ![p] = "none"]
    /\ dmarc_emails' = [dmarc_emails EXCEPT ![p] = <<>>]
    /\ idx' = [idx EXCEPT ![p] = 1]
    /\ results' = [results EXCEPT ![p] = EmptyResults]
    /\ db_report_id' = [db_report_id EXCEPT ![p] = 0]
    /\ exc' = [exc EXCEPT ![p] = FALSE]
    /\ connects' = [connects EXCEPT ![p] = 0]
    /\ stored' = [stored EXCEPT ![p] = {}]
    /\ marked' = [marked EXCEPT ![p] = {}]
    /\ submitted' = [submitted EXCEPT ![p] = {}]
    /\ logouts' = [logouts EXCEPT ![p] = 0]
    /\ hits' = [hits EXCEPT ![p] = {}]
    /\ fetches' = [fetches EXCEPT ![p] = <<>>]
    /\ runFaults' = [runFaults EXCEPT ![p] = 0]
    /\ UNCHANGED <<mailVars, dbVars, audit_logs, last_polled, runners, faults, storeHist,
                   stopPoint>>
    /\ UNCHANGED outside

\* supabase = get_supabase_client(access_token): before the try block, so a
\* failure of create_client / set_session leaves the function at once
GetClient(p) ==
    /\ pc[p] = "client"
    /\ \/ /\ pc' = [pc EXCEPT ![p] = "connect"]
          /\ NoFault
       \/ /\ pc' = [pc EXCEPT ![p] = "raised"]
          /\ Fault(p)
    /\ UNCHANGED <<mailVars, dbVars, auditVars, last_polled, runners, attempt, client,
                   dmarc_emails, idx, results, db_report_id, exc, histVars,
                   runsStarted, storeHist, stopPoint>>
    /\ UNCHANGED outside

\* the connection loop testing attempt == max_retries: the last failure is
\* swallowed like the others and the loop runs out with client = None
ConnectImapOffByOne(p) ==
    /\ pc[p] = "connect"
    /\ \/ /\ attempt[p] < max_retries
          /\ connects' = [connects EXCEPT ![p] = @ + 1]
          /\ \/ /\ client' = [client EXCEPT ![p] = "open"]
                /\ pc' = [pc EXCEPT ![p] = "fetch"]
                /\ UNCHANGED attempt
             \/ /\ attempt' = [attempt EXCEPT ![p] = @ + 1]
                /\ UNCHANGED <<pc, client>>
       \/ /\ attempt[p] = max_retries
          /\ pc' = [pc EXCEPT ![p] = "fetch"]
          /\ UNCHANGED <<connects, attempt, client>>
    /\ UNCHANGED <<mailVars, dbVars, auditVars, last_polled, runners, dmarc_emails, idx,
                   results, db_report_id, exc, stored, marked, logouts, hits, fetches,
                   runFaults, faults, runsStarted, storeHist, stopPoint>>
    /\ UNCHANGED outside

\* one iteration of: for attempt in range(max_retries): client = connect_imap(...)
ConnectImap(p) ==
    /\ pc[p] = "connect"
    /\ attempt[p] < max_retries
    /\ connects' = [connects EXCEPT ![p] = @ + 1]
    /\ \/ /\ client' = [client EXCEPT ![p] = "open"]       \* break
          /\ pc' = [pc EXCEPT ![p] = "fetch"]
          /\ UNCHANGED <<attempt, exc>>
       \/ /\ attempt[p] = max_retries - 1                    \* raise
          /\ exc' = [exc EXCEPT ![p] = TRUE]
          /\ pc' = [pc EXCEPT ![p] = "audit_failed"]
          /\ UNCHANGED <<attempt, client>>
       \/ /\ attempt[p] # max_retries - 1                    \* continue
          /\ attempt' = [attempt EXCEPT ![p] = @ + 1]
          /\ UNCHANGED <<pc, client, exc>>
    /\ UNCHANGED <<mailVars, dbVars, auditVars, last_polled, runners, dmarc_emails, idx,
                   results, db_report_id, stored, marked, logouts, hits, fetches,
                   runFaults, faults, runsStarted, storeHist, stopPoint>>
    /\ UNCHANGED outside

\* messages = client.search(['UNSEEN']), in the order of the uids
IsUnseen(u) == ~seen[u]
Unseen == SelectSeq([u \in 1..Cardinality(Uids) |-> u], IsUnseen)

Range(f) == { f[i] : i \in DOMAIN f }

\* fetch_dmarc_emails fetching every unread message, without the cap
fetch_dmarc_emailsNoLimit(p) ==
    /\ pc[p] = "fetch"
    /\ \/ /\ dmarc_emails' = [dmarc_emails EXCEPT ![p] = Flatten(Unseen)]
          /\ fetches' = [fetches EXCEPT ![p] =
                Append(@, [unseen |-> Range(Unseen), messages |-> Range(Unseen)])]
          /\ NoFault
       \/ /\ dmarc_emails' = [dmarc_emails EXCEPT ![p] = <<>>]
          /\ fetches' = [fetches EXCEPT ![p] =
                Append(@, [unseen |-> Range(Unseen), messages |-> {}])]
          /\ Fault(p)
    /\ idx' = [idx EXCEPT ![p] = 1]
    /\ pc' = [pc EXCEPT ![p] = "loop"]
    /\ UNCHANGED <<mailVars, dbVars, auditVars, last_polled, runners, attempt, client,
                   results, db_report_id, exc, connects, stored, marked, logouts, hits,
                   runsStarted, storeHist, stopPoint>>
    /\ UNCHANGED outside

\* fetch_dmarc_emails: the unread messages, the last `limit` of them, their
\* attachments in order; any failure (of select_folder, search, fetch or of
\* the decoding of a message) is caught and yields the empty list
fetch_dmarc_emails(p) ==
    /\ pc[p] = "fetch"
    /\ \/ /\ dmarc_emails' = [dmarc_emails EXCEPT ![p] = Flatten(LastN(Unseen, limit))]
          /\ fetches' = [fetches EXCEPT ![p] =
                Append(@, [unseen |-> Range(Unseen),
                           messages |-> Range(LastN(Unseen, limit))])]
          /\ NoFault
       \/ /\ dmarc_emails' = [dmarc_emails EXCEPT ![p] = <<>>]
          /\ \E fetched \in {{}, Range(LastN(Unseen, limit))} :
                fetches' = [fetches EXCEPT ![p] =
                    Append(@, [unseen |-> Range(Unseen), messages |-> fetched])]
          /\ Fault(p)
    /\ idx' = [idx EXCEPT ![p] = 1]
    /\ pc' = [pc EXCEPT ![p] = "loop"]
    /\ UNCHANGED <<mailVars, dbVars, auditVars, last_polled, runners, attempt, client,
                   results, db_report_id, exc, connects, stored, marked, logouts, hits,
                   runsStarted, storeHist, stopPoint>>
    /\ UNCHANGED outside

\* the loop marking the message read whatever the outcome of the attachment
ParseAttachmentMarksRead(p) ==
    /\ pc[p] = "loop"
    /\ IF idx[p] > Len(dmarc_emails[p])
       THEN /\ pc' = [pc EXCEPT ![p] = "last_polled"]
            /\ UNCHANGED <<idx, results, seen, marked>>
       ELSE IF PayloadOf(dmarc_emails[p][idx[p]]).kind = "malformed"
       THEN /\ RecordError(p, "parse")
            /\ seen' = [seen EXCEPT ![dmarc_emails[p][idx[p]][1]] = TRUE]
            /\ marked' = [marked EXCEPT ![p] = @ \cup {idx[p]}]
            /\ idx' = [idx EXCEPT ![p] = @ + 1]
            /\ UNCHANGED pc
       ELSE /\ pc' = [pc EXCEPT ![p] = "store_select"]
            /\ UNCHANGED <<idx, results, seen, marked>>
    /\ UNCHANGED <<mailbox, dbVars, auditVars, last_polled, runners, attempt, client,
                   dmarc_emails, db_report_id, exc, connects, stored, logouts, hits,
                   fetches, runFaults, faults, runsStarted, storeHist, stopPoint>>
    /\ UNCHANGED outside

\* loop head, extract_attachment and parse_dmarc_xml of the next attachment;
\* a ValueError is recorded and the loop goes on
ParseAttachment(p) ==
    /\ pc[p] = "loop"
    /\ IF idx[p] > Len(dmarc_emails[p])
       THEN /\ pc' = [pc EXCEPT ![p] = "last_polled"]
            /\ UNCHANGED <<idx, results>>
       ELSE IF PayloadOf(dmarc_emails[p][idx[p]]).kind = "malformed"
       THEN /\ RecordError(p, "parse")
            /\ idx' = [idx EXCEPT ![p] = @ + 1]
            /\ UNCHANGED pc
       ELSE /\ pc' = [pc EXCEPT ![p] = "store_select"]
            /\ UNCHANGED <<idx, results>>
    /\ UNCHANGED <<mailVars, dbVars, auditVars, last_polled, runners, attempt, client,
                   dmarc_emails, db_report_id, exc, histVars, runFaults, faults,
                   runsStarted, storeHist, stopPoint>>
    /\ UNCHANGED outside


(***************************************************************************)
(* store_dmarc_report, one action per call to the store.                   *)
(***************************************************************************)
CurrentDoc(p) == PayloadOf(dmarc_emails[p][idx[p]])

\* existing = select(...).execute(); if existing.data: return existing.data[0]['id']
StoreSelect(p) ==
    /\ pc[p] = "store_select"
    /\ \/ /\ Existing(user_id, CurrentDoc(p)) # {}
          /\ \E r \in Existing(user_id, CurrentDoc(p)) :
                /\ db_report_id' = [db_report_id EXCEPT ![p] = r.id]
                /\ returned' = [returned EXCEPT ![CurrentDoc(p)] = Append(@, r.id)]
          /\ stored' = [stored EXCEPT ![p] = @ \cup {idx[p]}]
          /\ hits' = [hits EXCEPT ![p] = @ \cup {idx[p]}]
          /\ pc' = [pc EXCEPT ![p] = "mark"]
          /\ NoFault
       \/ /\ Existing(user_id, CurrentDoc(p)) = {}
          /\ pc' = [pc EXCEPT ![p] = "store_insert"]
          /\ UNCHANGED <<db_report_id, stored, hits, returned>>
          /\ NoFault
       \/ /\ pc' = [pc EXCEPT ![p] = "store_except"]
          /\ UNCHANGED <<db_report_id, stored, hits, returned>>
          /\ Fault(p)
    /\ UNCHANGED <<mailVars, dbVars, auditVars, last_polled, runners, attempt, client,
                   dmarc_emails, idx, results, exc, connects, marked, logouts, fetches,
                   runsStarted, raised_for, stopPoint>>
    /\ UNCHANGED outside

\* result = table('dmarc_reports').insert(report_record).execute()
StoreInsertReport(p) ==
    /\ pc[p] = "store_insert"
    /\ \/ /\ dmarc_reports' = dmarc_reports \cup {ReportRow(nextId, CurrentDoc(p))}
          /\ db_report_id' = [db_report_id EXCEPT ![p] = nextId]
          /\ nextId' = nextId + 1
          /\ pc' = [pc EXCEPT ![p] = "store_records"]
          /\ NoFault
       \/ /\ pc' = [pc EXCEPT ![p] = "store_except"]
          /\ UNCHANGED <<dmarc_reports, db_report_id, nextId>>
          /\ Fault(p)
    /\ UNCHANGED <<mailVars, dmarc_records, auditVars, last_polled, runners, attempt,
                   client, dmarc_emails, idx, results, exc, histVars,
                   runsStarted, storeHist, stopPoint>>
    /\ UNCHANGED outside

\* table('dmarc_records').insert(batch).execute(); return db_report_id
StoreInsertRecords(p) ==
    /\ pc[p] = "store_records"
    /\ \/ /\ dmarc_records' = dmarc_records \cup RecordRows(db_report_id[p])
          /\ stored' = [stored EXCEPT ![p] = @ \cup {idx[p]}]
          /\ returned' = [returned EXCEPT ![CurrentDoc(p)] = Append(@, db_report_id[p])]
          /\ pc' = [pc EXCEPT ![p] = "mark"]
          /\ NoFault
       \/ /\ pc' = [pc EXCEPT ![p] = "store_except"]
          /\ UNCHANGED <<dmarc_records, stored, returned>>
          /\ Fault(p)
    /\ UNCHANGED <<mailVars, dmarc_reports, nextId, auditVars, last_polled, runners,
                   attempt, client, dmarc_emails, idx, results, db_report_id, exc,
                   connects, marked, logouts, hits, fetches, runsStarted, raised_for,
                   stopPoint>>
    /\ UNCHANGED outside

\* except Exception: insert(error_record) (its own failure is passed over); raise.
\* The caller's handler counts the error and goes on to the next attachment.
StoreExcept(p) ==
    /\ pc[p] = "store_except"
    /\ \/ /\ dmarc_reports' = dmarc_reports \cup {ErrorRow(nextId, CurrentDoc(p))}
          /\ nextId' = nextId + 1
          /\ NoFault
       \/ /\ UNCHANGED <<dmarc_reports, nextId>>
          /\ Fault(p)
    /\ raised_for' = [raised_for EXCEPT ![CurrentDoc(p)] = TRUE]
    /\ RecordError(p, "process")
    /\ idx' = [idx EXCEPT ![p] = @ + 1]
    /\ pc' = [pc EXCEPT ![p] = "loop"]
    /\ UNCHANGED <<mailVars, dmarc_records, auditVars, last_polled, runners, attempt,
                   client, dmarc_emails, db_report_id, exc, histVars, runsStarted,
                   returned, stopPoint>>
    /\ UNCHANGED outside

\* mark_email_as_read(client, uid): add_flags; its failure is logged and swallowed
mark_email_as_read(p) ==
    /\ pc[p] = "mark"
    /\ marked' = [marked EXCEPT ![p] = @ \cup {idx[p]}]
    /\ \/ /\ seen' = [seen EXCEPT ![dmarc_emails[p][idx[p]][1]] = TRUE]
          /\ NoFault
       \/ /\ UNCHANGED seen
          /\ Fault(p)
    /\ pc' = [pc EXCEPT ![p] = "audit_processed"]
    /\ UNCHANGED <<mailbox, dbVars, auditVars, last_polled, runners, attempt, client,
                   dmarc_emails, idx, results, db_report_id, exc, connects, stored,
                   logouts, hits, fetches, runsStarted, storeHist, stopPoint>>
    /\ UNCHANGED outside

\* log_audit_event without its try/except: a failure of the sink reaches the
\* loop's handler, which counts the attachment as an error
AuditProcessedPropagating(p) ==
    /\ pc[p] = "audit_processed"
    /\ submitted' = [submitted EXCEPT ![p] = @ \cup {"dmarc_report_processed"}]
    /\ \/ /\ audit_logs' = audit_logs \cup
                {AuditRow("dmarc_report_processed", "dmarc_report", db_report_id[p])}
          /\ RecordProcessed(p)
          /\ NoFault
       \/ /\ UNCHANGED audit_logs
          /\ RecordError(p, "process")
          /\ Fault(p)
    /\ idx' = [idx EXCEPT ![p] = @ + 1]
    /\ pc' = [pc EXCEPT ![p] = "loop"]
    /\ UNCHANGED <<mailVars, dbVars, last_polled, runners, attempt, client, dmarc_emails,
                   db_report_id, exc, histVars, runsStarted, storeHist, stopPoint>>
    /\ UNCHANGED outside

\* log_audit_event('dmarc_report_processed'); results['processed'] += 1; append
AuditProcessed(p) ==
    /\ pc[p] = "audit_processed"
    /\ log_audit_event(p, "dmarc_report_processed", "dmarc_report", db_report_id[p])
    /\ RecordProcessed(p)
    /\ idx' = [idx EXCEPT ![p] = @ + 1]
    /\ pc' = [pc EXCEPT ![p] = "loop"]
    /\ UNCHANGED <<mailVars, dbVars, last_polled, runners, attempt, client, dmarc_emails,
                   db_report_id, exc, histVars, runsStarted, storeHist, stopPoint>>
    /\ UNCHANGED outside

\* update_imap_last_polled: its failure is logged and swallowed
update_imap_last_polled(p) ==
    /\ pc[p] = "last_polled"
    /\ \/ /\ last_polled' = last_polled + 1
          /\ NoFault
       \/ /\ UNCHANGED last_polled
          /\ Fault(p)
    /\ pc' = [pc EXCEPT ![p] = "audit_completed"]
    /\ UNCHANGED <<mailVars, dbVars, auditVars, runners, attempt, client, dmarc_emails,
                   idx, results, db_report_id, exc, histVars,
                   runsStarted, storeHist, stopPoint>>
    /\ UNCHANGED outside

\* log_audit_event('dmarc_ingestion_completed')
AuditCompleted(p) ==
    /\ pc[p] = "audit_completed"
    /\ log_audit_event(p, "dmarc_ingestion_completed", "imap_config", imap_config_id)
    /\ pc' = [pc EXCEPT ![p] = "finally"]
    /\ UNCHANGED <<mailVars, dbVars, last_polled, runners, attempt, client, dmarc_emails,
                   idx, results, db_report_id, exc, histVars,
                   runsStarted, storeHist, stopPoint>>
    /\ UNCHANGED outside

\* except Exception: log_audit_event('dmarc_ingestion_failed'); raise
AuditFailed(p) ==
    /\ pc[p] = "audit_failed"
    /\ log_audit_event(p, "dmarc_ingestion_failed", "imap_config", imap_config_id)
    /\ pc' = [pc EXCEPT ![p] = "finally"]
    /\ UNCHANGED <<mailVars, dbVars, last_polled, runners, attempt, client, dmarc_emails,
                   idx, results, db_report_id, exc, histVars,
                   runsStarted, storeHist, stopPoint>>
    /\ UNCHANGED outside

\* the finally clause without client.logout(): the connection is left open
FinallyNoLogout(p) ==
    /\ pc[p] = "finally"
    /\ UNCHANGED <<logouts, client>>
    /\ pc' = [pc EXCEPT ![p] = IF exc[p] THEN "raised" ELSE "returned"]
    /\ UNCHANGED <<mailVars, dbVars, auditVars, last_polled, runners, attempt,
                   dmarc_emails, idx, results, db_report_id, exc, connects, stored,
                   marked, hits, fetches, runFaults, faults, runsStarted, storeHist,
                   stopPoint>>
    /\ UNCHANGED outside

\* finally: if client: client.logout() (failure passed over); return or re-raise
Finally(p) ==
    /\ pc[p] = "finally"
    /\ IF client[p] = "open"
       THEN /\ logouts' = [logouts EXCEPT ![p] = @ + 1]
            /\ client' = [client EXCEPT ![p] = "closed"]
       ELSE UNCHANGED <<logouts, client>>
    /\ pc' = [pc EXCEPT ![p] = IF exc[p] THEN "raised" ELSE "returned"]
    /\ UNCHANGED <<mailVars, dbVars, auditVars, last_polled, runners, attempt,
                   dmarc_emails, idx, results, db_report_id, exc, connects, stored,
                   marked, hits, fetches, runFaults, faults, runsStarted, storeHist,
                   stopPoint>>
    /\ UNCHANGED outside

LoopBody == {"store_select", "store_insert", "store_records", "store_except",
             "mark", "audit_processed"}

\* the process is stopped in the middle of a run (kill, power loss, restart):
\* the run's locals are gone, what it wrote to the store and the mailbox stays
Stop(p) ==
    /\ ~Ended(p)
    /\ Fault(p)
    /\ stopPoint' =
          IF pc[p] \in LoopBody
          THEN [at |-> pc[p], item |-> dmarc_emails[p][idx[p]],
                unread |-> ~seen[dmarc_emails[p][idx[p]][1]], run |-> runsStarted]
          ELSE [at |-> pc[p], item |-> <<0, 0>>, unread |-> FALSE, run |-> runsStarted]
    /\ pc' = [pc EXCEPT ![p] = "stopped"]
    /\ attempt' = [attempt EXCEPT ![p] = 0]
    /\ client' = [client EXCEPT ![p] = "none"]
    /\ dmarc_emails' = [dmarc_emails EXCEPT ![p] = <<>>]
    /\ idx' = [idx EXCEPT ![p] = 1]
    /\ results' = [results EXCEPT ![p] = EmptyResults]
    /\ db_report_id' = [db_report_id EXCEPT ![p] = 0]
    /\ exc' = [exc EXCEPT ![p] = FALSE]
    /\ connects' = [connects EXCEPT ![p] = 0]
    /\ stored' = [stored EXCEPT ![p] = {}]
    /\ marked' = [marked EXCEPT ![p] = {}]
    /\ submitted' = [submitted EXCEPT ![p] = {}]
    /\ logouts' = [logouts EXCEPT ![p] = 0]
    /\ hits' = [hits EXCEPT ![p] = {}]
    /\ fetches' = [fetches EXCEPT ![p] = <<>>]
    /\ UNCHANGED <<mailVars, dbVars, audit_logs, last_polled, runners, runsStarted,
                   storeHist>>
    /\ UNCHANGED outside

process_dmarc_ingestion(p) ==
    \/ StartRun(p)
    \/ GetClient(p)
    \/ ConnectImap(p)
    \/ fetch_dmarc_emails(p)
    \/ ParseAttachment(p)
    \/ StoreSelect(p)
    \/ StoreInsertReport(p)
    \/ StoreInsertRecords(p)
    \/ StoreExcept(p)
    \/ mark_email_as_read(p)
    \/ AuditProcessed(p)
    \/ update_imap_last_polled(p)
    \/ AuditCompleted(p)
    \/ AuditFailed(p)
    \/ Finally(p)
    \/ Stop(p)

Next == \E p \in Runs : process_dmarc_ingestion(p)

Spec == Init /\ [][Next]_vars

SpecConc == InitConc /\ [][Next]_vars

SpecCap == InitCap /\ [][Next]_vars

\* the scheduler starts run after run on the same folder, and a run that has
\* started is carried on to its end
SpecSchedule == InitCap /\ [][Next]_vars /\ WF_vars(Next)


(***************************************************************************)
(* Part II: rate_limiter.IMAPRateLimiter.  Time is counted in whole        *)
(* seconds; a dict is a function whose domain is the set of its keys.      *)
(***************************************************************************)
Owners == {user_id}

Put(d, k, v) == [x \in DOMAIN d \cup {k} |-> IF x = k THEN v ELSE d[x]]
Del(d, k) == [x \in DOMAIN d \ {k} |-> d[x]]
Get(d, k, default) == IF k \in DOMAIN d THEN d[k] ELSE default
Min(a, b) == IF a < b THEN a ELSE b

\* [a for a in attempts if a > t]
Since(attempts, t) == SelectSeq(attempts, LAMBDA a : a > t)

\* the backoff doubling from backoff_base at the first failure over the limit
calculate_backoff_timeFromBase(failed_count) ==
    IF failed_count <= max_failed_attempts THEN 0
    ELSE Min(backoff_base * 2^Min(failed_count - max_failed_attempts - 1, 6), backoff_max)

\* _calculate_backoff_time without the ceiling of backoff_max
calculate_backoff_timeUncapped(failed_count) ==
    IF failed_count <= max_failed_attempts THEN 0
    ELSE backoff_base * 2^Min(failed_count - max_failed_attempts, 6)

\* _calculate_backoff_time
calculate_backoff_time(failed_count) ==
    IF failed_count <= max_failed_attempts THEN 0
    ELSE Min(backoff_base * 2^Min(failed_count - max_failed_attempts, 6), backoff_max)

\* _cleanup_old_entries: the dicts it leaves, when a purge is due
cleanup_old_entries ==
    IF now - last_cleanup < cleanup_interval
    THEN [connection_attempts |-> connection_attempts,
          failed_attempts |-> failed_attempts,
          blocked_until |-> blocked_until,
          last_cleanup |-> last_cleanup]
    ELSE LET kept(u) == Since(connection_attempts[u], now - HourWindow)
             expired == {u \in DOMAIN blocked_until : blocked_until[u] <= now}
         IN [connection_attempts |->
                 [u \in {x \in DOMAIN connection_attempts : kept(x) # <<>>} |-> kept(u)],
             failed_attempts |->
                 [u \in DOMAIN failed_attempts \ expired |-> failed_attempts[u]],
             blocked_until |->
                 [u \in DOMAIN blocked_until \ expired |-> blocked_until[u]],
             last_cleanup |-> now]

Limited(reason, retry_after) ==
    [is_limited |-> TRUE, reason |-> reason, retry_after |-> {retry_after}]
NotLimited == [is_limited |-> FALSE, reason |-> "None", retry_after |-> {}]

\* the ceilings tested with > : one attempt more is let through
WindowLimitsOffByOne(attempts_last_minute, attempts_last_hour) ==
    IF attempts_last_minute > max_attempts_per_minute
    THEN Limited("Too many connection attempts per minute", 60)
    ELSE IF attempts_last_hour > max_attempts_per_hour
    THEN Limited("Too many connection attempts per hour", 3600)
    ELSE NotLimited

\* the per-hour ceiling tested before the per-minute ceiling
WindowLimitsHourFirst(attempts_last_minute, attempts_last_hour) ==
    IF attempts_last_hour >= max_attempts_per_hour
    THEN Limited("Too many connection attempts per hour", 3600)
    ELSE IF attempts_last_minute >= max_attempts_per_minute
    THEN Limited("Too many connection attempts per minute", 60)
    ELSE NotLimited

\* the per-minute check, then the per-hour check, of is_rate_limited
WindowLimits(attempts_last_minute, attempts_last_hour) ==
    IF attempts_last_minute >= max_attempts_per_minute
    THEN Limited("Too many connection attempts per minute", 60)
    ELSE IF attempts_last_hour >= max_attempts_per_hour
    THEN Limited("Too many connection attempts per hour", 3600)
    ELSE NotLimited

\* is_rate_limited(user_id): the purge, the block, the two windows
is_rate_limited(u) ==
    LET c == cleanup_old_entries
        blocked == u \in DOMAIN c.blocked_until /\ c.blocked_until[u] > now
        expired == u \in DOMAIN c.blocked_until /\ c.blocked_until[u] <= now
        recent_attempts == Get(c.connection_attempts, u, <<>>)
        attempts_last_minute == Len(Since(recent_attempts, now - MinuteWindow))
        attempts_last_hour == Len(Since(recent_attempts, now - HourWindow))
    IN  /\ last_cleanup' = c.last_cleanup
        /\ IF blocked
           THEN /\ ret' = Limited("Too many failed authentication attempts",
                                  c.blocked_until[u] - now)
                /\ connection_attempts' = c.connection_attempts
                /\ failed_attempts' = c.failed_attempts
                /\ blocked_until' = c.blocked_until
           ELSE /\ blocked_until' = Del(c.blocked_until, u)
                /\ failed_attempts' =
                      IF expired THEN Del(c.failed_attempts, u) ELSE c.failed_attempts
                /\ connection_attempts' = Put(c.connection_attempts, u, recent_attempts)
                /\ ret' = WindowLimits(attempts_last_minute, attempts_last_hour)

\* record_attempt keeping the block and the counter on a success
record_attemptKeepingBlock(u, success) ==
    LET failed_count == Get(failed_attempts, u, 0) + 1 IN
    /\ connection_attempts' =
          Put(connection_attempts, u, Append(Get(connection_attempts, u, <<>>), now))
    /\ IF success
       THEN UNCHANGED <<failed_attempts, blocked_until>>
       ELSE /\ failed_attempts' = Put(failed_attempts, u, failed_count)
            /\ blocked_until' =
                  IF failed_count > max_failed_attempts
                  THEN Put(blocked_until, u, now + calculate_backoff_time(failed_count))
                  ELSE blocked_until

\* record_attempt(user_id, success)
record_attempt(u, success) ==
    LET failed_count == Get(failed_attempts, u, 0) + 1 IN
    /\ connection_attempts' =
          Put(connection_attempts, u, Append(Get(connection_attempts, u, <<>>), now))
    /\ IF success
       THEN /\ failed_attempts' = Del(failed_attempts, u)
            /\ blocked_until' = Del(blocked_until, u)
       ELSE /\ failed_attempts' = Put(failed_attempts, u, failed_count)
            /\ blocked_until' =
                  IF failed_count > max_failed_attempts
                  THEN Put(blocked_until, u, now + calculate_backoff_time(failed_count))
                  ELSE blocked_until

(***************************************************************************)
(* The limiter called by one caller at a time, with the clock moving       *)
(* between the calls.                                                      *)
(***************************************************************************)
\* attempts recorded before the behaviour starts, OldAge seconds ago
OldAttempts == {0, max_attempts_per_hour - max_attempts_per_minute,
                max_attempts_per_hour - max_attempts_per_minute + 1}
OldAge == HourWindow - MinuteWindow

\* one second short of the minute, and the minute
Ticks == {MinuteWindow - 1, MinuteWindow}

InitLimiter ==
    /\ now = HourWindow
    /\ \E k \in OldAttempts :
          connection_attempts =
              IF k = 0 THEN EmptyDict
              ELSE [u \in Owners |-> [i \in 1..k |-> now - OldAge]]
    /\ failed_attempts = EmptyDict
    /\ blocked_until = EmptyDict
    /\ last_cleanup = now - (cleanup_interval - MinuteWindow)
    /\ ret = NoReturn
    /\ last_call = NoCall
    /\ calls = 0
    /\ ticks = 0
    /\ IdleIngest
    /\ IdleApi
    /\ IdleParser
    /\ IdleBeyond

CallIsRateLimited(u) ==
    /\ is_rate_limited(u)
    /\ last_call' = [op |-> "is_rate_limited", success |-> FALSE, unblocked |-> FALSE]
    /\ UNCHANGED <<now, calls, ticks, ingestVars, apiVars, parserVars, beyond>>

CallRecordAttempt(u, success) ==
    /\ calls < MaxCalls
    /\ record_attempt(u, success)
    /\ calls' = calls + 1
    /\ last_call' = [op |-> "record_attempt", success |-> success,
                     unblocked |-> success /\ u \in DOMAIN blocked_until]
    /\ ret' = NoReturn
    /\ UNCHANGED <<now, last_cleanup, ticks, ingestVars, apiVars, parserVars, beyond>>

\* time passes
Tick(d) ==
    /\ ticks < MaxTicks
    /\ now' = now + d
    /\ ticks' = ticks + 1
    /\ last_call' = NoCall
    /\ ret' = NoReturn
    /\ UNCHANGED <<connection_attempts, failed_attempts, blocked_until, last_cleanup,
                   calls, ingestVars, apiVars, parserVars, beyond>>

NextLimiter ==
    \/ \E u \in Owners : CallIsRateLimited(u)
    \/ \E u \in Owners : \E success \in BOOLEAN : CallRecordAttempt(u, success)
    \/ \E d \in Ticks : Tick(d)

SpecLimiter == InitLimiter /\ [][NextLimiter]_vars

\* failed attempts recorded before the behaviour starts, OldAge seconds ago,
\* too few for a block
OldFailures == {1, max_failed_attempts}

InitPurge ==
    /\ now = HourWindow
    /\ \E k \in OldFailures :
          /\ connection_attempts = [u \in Owners |-> [i \in 1..k |-> now - OldAge]]
          /\ failed_attempts = [u \in Owners |-> k]
    /\ blocked_until = EmptyDict
    /\ last_cleanup = now - (cleanup_interval - MinuteWindow)
    /\ ret = NoReturn
    /\ last_call = NoCall
    /\ calls = 0
    /\ ticks = 0
    /\ IdleIngest
    /\ IdleApi
    /\ IdleParser
    /\ IdleBeyond

\* the limiter after failures that are about to leave the hour
SpecPurge == InitPurge /\ [][NextLimiter]_vars


(***************************************************************************)
(* The entry points that open mailbox connections for an owner:            *)
(* api.create_imap_config, api.process_emails,                             *)
(* api.trigger_user_processing and scheduler.DmarcScheduler.process_config.*)
(* Requests of one owner are in progress at once; a request is counted at  *)
(* the stage it has reached.                                               *)
(***************************************************************************)
\* the recorded attempts of owner u made less than w seconds ago
AttemptsWithin(u, w) ==
    LET a == Get(connection_attempts, u, <<>>)
    IN  Cardinality({ i \in DOMAIN a : now - a[i] < w })

ActiveBlock(u) == u \in DOMAIN blocked_until /\ blocked_until[u] > now

\* what is_rate_limited(u) would answer now
LimitedNow(u) ==
    \/ ActiveBlock(u)
    \/ AttemptsWithin(u, MinuteWindow) >= max_attempts_per_minute
    \/ AttemptsWithin(u, HourWindow) >= max_attempts_per_hour

\* creations that ended in a block: max_failed_attempts + 1 failed attempts
\* at one time, and then the block of calculate_backoff_time
FailuresPerCycle == max_failed_attempts + 1
CycleLength == calculate_backoff_time(FailuresPerCycle)

\* the cycles behind the owner when the behaviour starts: none, or as many as
\* leave room for one more cycle under the per-hour ceiling
PastCycles == {0, (max_attempts_per_hour \div FailuresPerCycle) - 1}

InitApi ==
    /\ now = HourWindow
    /\ \E c \in PastCycles :
          IF c = 0
          THEN /\ connection_attempts = EmptyDict
               /\ failed_attempts = EmptyDict
               /\ blocked_until = EmptyDict
          ELSE /\ connection_attempts =
                     [u \in Owners |->
                        [i \in 1..(c * FailuresPerCycle) |->
                            now - CycleLength * (c - ((i - 1) \div FailuresPerCycle))]]
               /\ failed_attempts = [u \in Owners |-> FailuresPerCycle]
               /\ blocked_until = [u \in Owners |-> now]
    /\ last_cleanup = now - (cleanup_interval - MinuteWindow)
    /\ ret = NoReturn
    /\ last_call = NoCall
    /\ calls = 0
    /\ ticks = 0
    /\ IdleApi
    /\ IdleIngest
    /\ IdleParser
    /\ IdleBeyond

\* The handlers of api.py are coroutines without an await: the event loop
\* runs one to its end before it starts the next request.

\* create_imap_config that goes on to the connection test whatever the
\* limiter answered
create_imap_config_checkUnheeded(u) ==
    /\ running = "idle"
    /\ is_rate_limited(u)
    /\ running' = "create_imap_config"
    /\ UNCHANGED <<now, opened, limiterHist, ingestVars, parserVars, beyond>>

\* create_imap_config, up to the rate-limit check: 429 when limited
create_imap_config_check(u) ==
    /\ running = "idle"
    /\ is_rate_limited(u)
    /\ running' = IF ret'.is_limited THEN "idle" ELSE "create_imap_config"
    /\ UNCHANGED <<now, opened, limiterHist, ingestVars, parserVars, beyond>>

\* create_imap_config after the check.  The request ends with no test when
\* get_supabase_client raises or a required field is missing.  In the test,
\* connect_imap is called with the keywords user_id and config_name, which
\* it does not take, so the call raises before any connection is made;
\* success stays False, and the finally clause records the attempt
create_imap_config_test(u) ==
    /\ running = "create_imap_config"
    /\ \/ UNCHANGED <<connection_attempts, failed_attempts, blocked_until>>
       \/ record_attempt(u, FALSE)
    /\ running' = "idle"
    /\ UNCHANGED <<now, last_cleanup, ret, opened, limiterHist, ingestVars, parserVars, beyond>>

\* the connect_imap calls of process_dmarc_ingestion, started from `entry`;
\* the run makes none when it fails before it connects
ingestion_run(u, entry) ==
    \/ opened' = opened
    \/ opened' = opened \cup {[entry |-> entry, limited |-> LimitedNow(u)]}

\* process_emails: 429 when limited, otherwise the ingestion run
process_emails(u) ==
    /\ running = "idle"
    /\ is_rate_limited(u)
    /\ IF ret'.is_limited
       THEN opened' = opened
       ELSE ingestion_run(u, "process_emails")
    /\ UNCHANGED <<now, running, limiterHist, ingestVars, parserVars, beyond>>

\* trigger_user_processing: the ingestion run of the owner's configuration
trigger_user_processing(u) ==
    /\ running = "idle"
    /\ ingestion_run(u, "trigger_user_processing")
    /\ UNCHANGED <<limiterVars, running, limiterHist, ingestVars, parserVars, beyond>>

\* DmarcScheduler.process_config, in the scheduler's thread
process_config(u) ==
    /\ ingestion_run(u, "process_config")
    /\ UNCHANGED <<limiterVars, running, limiterHist, ingestVars, parserVars, beyond>>

NextApi ==
    \/ \E u \in Owners : create_imap_config_check(u)
    \/ \E u \in Owners : create_imap_config_test(u)
    \/ \E u \in Owners : process_emails(u)
    \/ \E u \in Owners : trigger_user_processing(u)
    \/ \E u \in Owners : process_config(u)
    \/ \E d \in Ticks : Tick(d)

SpecApi == InitApi /\ [][NextApi]_vars

(***************************************************************************)
(* dmarc_parser.parse_dmarc_xml, on the <record> elements of a document.   *)
(* The text of an element is a set: empty when the element is missing      *)
(* (None), else the one text; the text of <count> is a sequence of         *)
(* characters.                                                             *)
(***************************************************************************)
None == {}
Text(t) == {t}

DigitChars == <<"0", "1", "2", "3", "4", "5", "6", "7", "8", "9">>
IsDigit(c) == \E i \in DOMAIN DigitChars : DigitChars[i] = c
DigitValue(c) == (CHOOSE i \in DOMAIN DigitChars : DigitChars[i] = c) - 1

\* the value of a text of decimal digits
RECURSIVE digits(_)
digits(chars) ==
    IF chars = <<>> THEN 0
    ELSE 10 * digits(SubSeq(chars, 1, Len(chars) - 1)) + DigitValue(chars[Len(chars)])

\* the texts int() takes: decimal digits, after a minus sign or not
IsInteger(chars) ==
    LET body == IF chars # <<>> /\ Head(chars) = "-" THEN Tail(chars) ELSE chars
    IN  body # <<>> /\ \A i \in DOMAIN body : IsDigit(body[i])

\* int(text)
int(chars) ==
    IF Head(chars) = "-" THEN 0 - digits(Tail(chars)) ELSE digits(chars)

\* safe_find_int: the default for a missing element, an empty text and a
\* text int() refuses
safe_find_int(text, default) ==
    IF text = None THEN default
    ELSE LET chars == CHOOSE t \in text : TRUE IN
         IF chars = <<>> THEN default
         ELSE IF IsInteger(chars) THEN int(chars)
         ELSE default

\* parse_record, the fields the summary is made of
parse_record(record) ==
    [count |-> safe_find_int(record.count, 1),
     dkim_result |-> record.dkim,
     spf_result |-> record.spf]

\* a record passes only when both results are 'pass'
dmarc_passBoth(record_data) ==
    record_data.dkim_result = Text("pass") /\ record_data.spf_result = Text("pass")

\* dkim_pass or spf_pass
dmarc_pass(record_data) ==
    record_data.dkim_result = Text("pass") \/ record_data.spf_result = Text("pass")

\* the loop over root.findall('record'), from the first n records
RECURSIVE summary(_, _)
summary(records, n) ==
    IF n = 0 THEN [total_records |-> 0, pass_count |-> 0, fail_count |-> 0]
    ELSE LET s == summary(records, n - 1)
             record_data == parse_record(records[n])
             count == record_data.count
         IN [total_records |-> s.total_records + count,
             pass_count |-> IF dmarc_pass(record_data)
                            THEN s.pass_count + count ELSE s.pass_count,
             fail_count |-> IF dmarc_pass(record_data)
                            THEN s.fail_count ELSE s.fail_count + count]

\* str(e) of the AttributeError of parse_record on a <record> without <row>
NoRowError == "'NoneType' object has no attribute 'find'"

\* parse_dmarc_xml returning a report of the records that have a <row>
parse_dmarc_xmlSkippingRecords(error, records) ==
    IF error # None
    THEN [outcome |-> "raised", message |-> <<"Invalid XML format: ", error>>]
    ELSE LET rows == SelectSeq(records, LAMBDA r : r.row)
             s == summary(rows, Len(rows)) IN
         [outcome |-> "returned",
          records |-> [i \in DOMAIN rows |-> parse_record(rows[i])],
          total_records |-> s.total_records,
          pass_count |-> s.pass_count,
          fail_count |-> s.fail_count]

\* parse_dmarc_xml: ET.ParseError is raised as ValueError; a <record> without
\* a <row> makes parse_record fail, and the failure is raised as ValueError
parse_dmarc_xml(error, records) ==
    IF error # None
    THEN [outcome |-> "raised", message |-> <<"Invalid XML format: ", error>>]
    ELSE IF \E i \in DOMAIN records : ~records[i].row
    THEN [outcome |-> "raised",
          message |-> <<"Failed to parse DMARC report: ", Text(NoRowError)>>]
    ELSE LET s == summary(records, Len(records)) IN
         [outcome |-> "returned",
          records |-> [i \in DOMAIN records |-> parse_record(records[i])],
          total_records |-> s.total_records,
          pass_count |-> s.pass_count,
          fail_count |-> s.fail_count]

\* str(e) of an ET.ParseError
ParseErrors == {Text("syntax error: line 1, column 0")}

\* texts of <count>: missing, empty, not a number, and numbers
CountTexts == {None, Text(<<>>), Text(<<"x">>), Text(<<"0">>), Text(<<"-", "3">>),
               Text(<<"2">>), Text(<<"5">>), Text(<<"1", "0">>)}
\* texts of <dkim> and <spf> under <policy_evaluated>
ResultTexts == {None, Text("pass"), Text("fail")}

RecordElements ==
    [row : {TRUE}, count : CountTexts, dkim : ResultTexts, spf : ResultTexts]
    \cup {[row |-> FALSE, count |-> None, dkim |-> None, spf |-> None]}

\* a document of three records with the counts 5, 10 and 2
ExampleRecords ==
    << [row |-> TRUE, count |-> Text(<<"5">>), spf |-> Text("fail"), dkim |-> Text("fail")],
       [row |-> TRUE, count |-> Text(<<"1", "0">>), spf |-> Text("pass"), dkim |-> Text("pass")],
       [row |-> TRUE, count |-> Text(<<"2">>), spf |-> Text("fail"), dkim |-> Text("pass")] >>

\* the documents of up to MaxRecords records, and the one of three
InitParser ==
    /\ \/ /\ xml_error = None
          /\ \/ \E n \in 0..MaxRecords : xml_records \in [1..n -> RecordElements]
             \/ xml_records = ExampleRecords
       \/ /\ xml_error \in ParseErrors
          /\ xml_records = <<>>
    /\ report_data = NoReport
    /\ IdleIngest
    /\ IdleLimiter
    /\ IdleApi
    /\ IdleBeyond

CallParseDmarcXml ==
    /\ report_data = NoReport
    /\ report_data' = parse_dmarc_xml(xml_error, xml_records)
    /\ UNCHANGED <<xml_error, xml_records, ingestVars, limiterVars, limiterHist, apiVars, beyond>>

NextParser == CallParseDmarcXml

SpecParser == InitParser /\ [][NextParser]_vars

\* the document is not well-formed or has a <record> without <row>
Unparsable == xml_error # None \/ \E i \in DOMAIN xml_records : ~xml_records[i].row

\* the runs of process_dmarc_ingestion, and the parser on the documents it
\* cannot parse
InitUnparsable == InitParser /\ Unparsable
ParseUnparsable == Unparsable /\ CallParseDmarcXml
InitReports == Init \/ InitUnparsable
NextReports == Next \/ ParseUnparsable
SpecReports == InitReports /\ [][NextReports]_vars

(***************************************************************************)
(* Part IV: analysis_engine.DMARCAnalyzer.  A failure rate is a whole      *)
(* number of 1/RateUnits of a percent, and the score is computed in exact  *)
(* arithmetic.                                                             *)
(***************************************************************************)
Max(a, b) == IF a > b THEN a ELSE b

\* int(x) of the quotient n / d, d > 0: towards zero
Trunc(n, d) == IF n >= 0 THEN n \div d ELSE 0 - ((0 - n) \div d)

Issue(type, severity) == [type |-> type, severity |-> severity]

\* issue.get('severity', 'low') and the penalty of the issue
Penalty(issue) ==
    CASE issue.severity = "critical" -> 20
      [] issue.severity = "high" -> 10
      [] issue.severity = "medium" -> 5
      [] OTHER -> 2

RECURSIVE Penalties(_)
Penalties(issues) ==
    IF issues = <<>> THEN 0 ELSE Penalty(Head(issues)) + Penalties(Tail(issues))

\* the health score without the clamp to 0..100
calculate_health_scoreUnclamped(failure_rate, issues, spf_analysis, dkim_analysis) ==
    LET total_dkim == dkim_analysis.valid_signatures + dkim_analysis.invalid_signatures
                        + dkim_analysis.missing_signatures
        t == IF total_dkim > 0 THEN total_dkim ELSE 1
        d == RateUnits * t
        spf == IF ~spf_analysis.record THEN 25
               ELSE IF spf_analysis.lookup_count > 10 THEN 15 ELSE 0
        dkim == IF total_dkim > 0
                THEN Min(50 * dkim_analysis.invalid_signatures * RateUnits, 20 * d)
                ELSE 0
        base_score == (100 - Penalties(issues) - spf) * d
                        - Min(2 * failure_rate * t, 60 * d) - dkim
    IN  Trunc(base_score, d)

\* _calculate_health_score
calculate_health_score(failure_rate, issues, spf_analysis, dkim_analysis) ==
    LET total_dkim == dkim_analysis.valid_signatures + dkim_analysis.invalid_signatures
                        + dkim_analysis.missing_signatures
        t == IF total_dkim > 0 THEN total_dkim ELSE 1
        d == RateUnits * t
        spf == IF ~spf_analysis.record THEN 25
               ELSE IF spf_analysis.lookup_count > 10 THEN 15 ELSE 0
        dkim == IF total_dkim > 0
                THEN Min(50 * dkim_analysis.invalid_signatures * RateUnits, 20 * d)
                ELSE 0
        base_score == (100 - Penalties(issues) - spf) * d
                        - Min(2 * failure_rate * t, 60 * d) - dkim
    IN  Max(0, Min(100, Trunc(base_score, d)))

\* the thresholds on the failure rate tested with <= instead of <
determine_analysis_statusInclusive(health_score, failure_rate) ==
    IF health_score >= 90 /\ failure_rate <= 5 * RateUnits THEN "excellent"
    ELSE IF health_score >= 75 /\ failure_rate <= 15 * RateUnits THEN "good"
    ELSE IF health_score >= 50 /\ failure_rate <= 30 * RateUnits THEN "warning"
    ELSE "critical"

\* _determine_analysis_status
determine_analysis_status(health_score, failure_rate) ==
    IF health_score >= 90 /\ failure_rate < 5 * RateUnits THEN "excellent"
    ELSE IF health_score >= 75 /\ failure_rate < 15 * RateUnits THEN "good"
    ELSE IF health_score >= 50 /\ failure_rate < 30 * RateUnits THEN "warning"
    ELSE "critical"

\* An entry of missing_ips is "<ip> (<provider>)" or "<ip>": the model keeps
\* the provider, or NoProvider, of each entry; the position stands for the IP.
NoProvider == "none"
HasProviderInfo(missing_ip) == missing_ip # NoProvider      \* '(' in missing_ip
MaxListed == 5          \* spf_analysis.missing_ips[:5]

\* _detect_spf_issues
detect_spf_issues(spf_analysis) ==
    (IF ~spf_analysis.record THEN <<Issue("spf_missing", "critical")>>
     ELSE IF spf_analysis.lookup_count > 10 THEN <<Issue("spf_lookup_limit", "high")>>
     ELSE <<>>)
    \o [i \in 1..Len(SelectSeq(SubSeq(spf_analysis.missing_ips, 1,
                                       Min(Len(spf_analysis.missing_ips), MaxListed)),
                                HasProviderInfo))
           |-> Issue("spf_missing_provider", "high")]

\* _detect_dkim_issues
detect_dkim_issues(dkim_analysis) ==
    (IF dkim_analysis.high_failure THEN <<Issue("dkim_high_failure", "high")>> ELSE <<>>)
    \o (IF dkim_analysis.unsigned
        THEN <<Issue("dkim_missing_signatures", "medium")>> ELSE <<>>)

\* _detect_pattern_anomalies and _detect_alignment_issues
detect_other_issues(input) ==
    (IF input.many_failing_ips
     THEN <<Issue("pattern_many_failing_ips", "medium")>> ELSE <<>>)
    \o (IF input.misaligned THEN <<Issue("alignment_domain_mismatch", "medium")>> ELSE <<>>)

\* the result of the except clause, and of a window without reports
ErrorResult ==
    [outcome |-> "returned", health_score |-> 0, failure_rate |-> 0,
     anomalies_detected |-> 0, issues |-> <<Issue("analysis_error", "-")>>,
     recommendations_count |-> 0, status |-> "error"]
NoDataResult ==
    [outcome |-> "returned", health_score |-> 0, failure_rate |-> 0,
     anomalies_detected |-> 0, issues |-> <<Issue("no_data", "-")>>,
     recommendations_count |-> 0, status |-> "no_data"]

\* the fields of dataclass SPFAnalysis, none with a default, and the keywords
\* _analyze_spf_failures gives its constructor: a field without its keyword
\* is a TypeError
SPFAnalysisFields ==
    {"record", "is_valid", "mechanisms", "includes", "redirects", "lookup_count",
     "issues", "missing_ips"}
SPFAnalysisKeywords ==
    {"record", "is_valid", "mechanisms", "includes", "lookup_count", "issues",
     "missing_ips"}
analyze_spf_failuresRaises == SPFAnalysisFields # SPFAnalysisKeywords

\* the try block of analyze_domain_reports from its metrics on, nothing failing
Analysis(input) ==
    IF input.reports = "empty" THEN NoDataResult
    ELSE LET issues == detect_spf_issues(input.spf) \o detect_dkim_issues(input.dkim)
                         \o detect_other_issues(input)
             health_score == calculate_health_score(input.failure_rate, issues,
                                                    input.spf, input.dkim)
             anomalies_detected ==
                 Len(SelectSeq(issues, LAMBDA i : i.severity \in {"critical", "high"}))
         IN [outcome |-> "returned", health_score |-> health_score,
             failure_rate |-> input.failure_rate,
             anomalies_detected |-> anomalies_detected, issues |-> issues,
             recommendations_count |-> Len(issues),
             status |-> determine_analysis_status(health_score, input.failure_rate)]

\* the failures of the collaborators: the store queries of _get_recent_reports
\* and _get_detailed_records, and an exception inside the computation.  A DNS
\* failure is caught by _get_spf_record and leaves the SPF analysis without a
\* record.
Failures == {"none", "reports_query", "records_query", "computation"}

\* analyze_domain_reports letting the exception through
analyze_domain_reportsRaising(input, failure) ==
    IF failure = "reports_query" THEN [outcome |-> "raised"]
    ELSE IF input.reports = "empty" THEN NoDataResult
    ELSE IF failure # "none" \/ analyze_spf_failuresRaises THEN [outcome |-> "raised"]
    ELSE Analysis(input)

\* analyze_domain_reports: with reports in the window it calls
\* _get_detailed_records and then _analyze_spf_failures, whose exception is
\* caught like any other
analyze_domain_reports(input, failure) ==
    IF failure = "reports_query" THEN ErrorResult
    ELSE IF input.reports = "empty" THEN NoDataResult
    ELSE IF failure # "none" \/ analyze_spf_failuresRaises THEN ErrorResult
    ELSE Analysis(input)

\* failure rates at and around the thresholds of the status, and the ends
Rates ==
    {0, 100 * RateUnits} \cup
    { t * RateUnits + k : t \in {5, 15, 30}, k \in {0 - 1, 0, 1} }

SpfAnalyses ==
    [record : BOOLEAN, lookup_count : {3, 11},
     missing_ips : {<<>>, <<"google", NoProvider>>}]
DkimAnalyses ==
    [valid_signatures : 0..MaxSignatures, invalid_signatures : 0..MaxSignatures,
     missing_signatures : 0..MaxSignatures, high_failure : BOOLEAN, unsigned : BOOLEAN]
Severities == {"critical", "high", "medium", "low"}

InitAnalysis ==
    /\ \/ analysis_input = NoInput
       \/ analysis_input \in
             [reports : {"empty", "some"}, failure_rate : Rates, spf : SpfAnalyses,
              dkim : DkimAnalyses, many_failing_ips : BOOLEAN, misaligned : BOOLEAN]
    /\ analysis_result = NoResult
    /\ fn_ret = NoValue
    /\ IdleIngest
    /\ IdleLimiter
    /\ IdleApi
    /\ IdleParser
    /\ IdleRecommendations
    /\ IdleCrypto
    /\ IdleRest

CallAnalyzeDomainReports ==
    /\ analysis_input # NoInput
    /\ analysis_result = NoResult
    /\ \E failure \in Failures :
          analysis_result' =
              [result |-> analyze_domain_reports(analysis_input, failure),
               failure |-> failure]
    /\ UNCHANGED <<analysis_input, fn_ret, core, recVars, cryptoVars, rest>>

\* a call of _calculate_health_score on its own
CallCalculateHealthScore ==
    /\ analysis_input = NoInput
    /\ fn_ret = NoValue
    /\ \E failure_rate \in Rates, severity \in Severities, n \in 0..2,
          spf \in SpfAnalyses, dkim \in DkimAnalyses :
          LET issues == [i \in 1..n |-> Issue("-", severity)] IN
          fn_ret' = [fn |-> "calculate_health_score", failure_rate |-> failure_rate,
                     issues |-> issues, spf |-> spf, dkim |-> dkim,
                     value |-> calculate_health_score(failure_rate, issues, spf, dkim)]
    /\ UNCHANGED <<analysis_input, analysis_result, core, recVars, cryptoVars, rest>>

\* a call of _determine_analysis_status on its own
CallDetermineAnalysisStatus ==
    /\ analysis_input = NoInput
    /\ fn_ret = NoValue
    /\ \E health_score \in 0..100, failure_rate \in Rates :
          fn_ret' = [fn |-> "determine_analysis_status", health_score |-> health_score,
                     failure_rate |-> failure_rate,
                     value |-> determine_analysis_status(health_score, failure_rate)]
    /\ UNCHANGED <<analysis_input, analysis_result, core, recVars, cryptoVars, rest>>

\* the lists of unauthorized failing IPs: none, one, two, and one more than
\* _detect_spf_issues reads; all of a provider, or the first of none
MissingIpLists ==
    { [i \in 1..n |-> IF i = k THEN NoProvider ELSE "google"] :
        n \in {0, 1, 2, MaxListed + 1}, k \in {0, 1} }

\* a call of _detect_spf_issues on its own
CallDetectSpfIssues ==
    /\ analysis_input = NoInput
    /\ fn_ret = NoValue
    /\ \E spf \in [record : BOOLEAN, lookup_count : {3, 11},
                    missing_ips : MissingIpLists] :
          fn_ret' = [fn |-> "detect_spf_issues", spf |-> spf,
                     value |-> detect_spf_issues(spf)]
    /\ UNCHANGED <<analysis_input, analysis_result, core, recVars, cryptoVars, rest>>

NextAnalysis ==
    \/ CallAnalyzeDomainReports
    \/ CallDetectSpfIssues
    \/ CallCalculateHealthScore
    \/ CallDetermineAnalysisStatus

SpecAnalysis == InitAnalysis /\ [][NextAnalysis]_vars

(***************************************************************************)
(* Part V.  The recommendations: recommendation_engine.RecommendationEngine *)
(* and the status update of api.py.  A row of table recommendations is its  *)
(* recommendation_type, status and user_action; its id is its position.    *)
(* The handlers are coroutines without an await, so each runs to its end.  *)
(***************************************************************************)
MaxIssues == 2
MaxRows == 2

\* the recommendation of each _create_*_recommendation
Recommendation(type) ==
    [recommendation_type |-> type, status |-> "pending", user_action |-> "none"]

\* _create_recommendation_from_issue without the security review
create_recommendation_from_issueNoReview(issue) ==
    CASE issue.type = "spf_missing" -> {Recommendation("spf_creation")}
      [] issue.type = "spf_missing_provider" -> {Recommendation("spf_provider_fix")}
      [] issue.type = "spf_lookup_limit" -> {Recommendation("spf_optimization")}
      [] issue.type = "dkim_high_failure" -> {Recommendation("dkim_configuration")}
      [] OTHER -> None

\* _create_recommendation_from_issue: the recommendation, or None
create_recommendation_from_issue(issue) ==
    CASE issue.type = "spf_missing" -> {Recommendation("spf_creation")}
      [] issue.type = "spf_missing_provider" -> {Recommendation("spf_provider_fix")}
      [] issue.type = "spf_lookup_limit" -> {Recommendation("spf_optimization")}
      [] issue.type = "dkim_high_failure" -> {Recommendation("dkim_configuration")}
      [] issue.type = "pattern_many_failing_ips" -> {Recommendation("security_review")}
      [] OTHER -> None

\* what _store_recommendation meets: the row is inserted, there is no analysis
\* result of the domain, the insert raises, the insert returns no data
StoreOutcomes == {"stored", "no_analysis_result", "insert_raised", "insert_empty"}

\* _store_recommendation: the stored row, or None
store_recommendation(rec, outcome) == IF outcome = "stored" THEN {rec} ELSE None

\* generate_recommendations from issue i on: the stored rows, each with the
\* position of its issue.  outcomes[i] is what the store of the recommendation
\* of issue i meets.
RECURSIVE generate_from(_, _, _)
generate_from(issues, outcomes, i) ==
    IF i > Len(issues) THEN <<>>
    ELSE LET rec == create_recommendation_from_issue(issues[i])
             stored_rec ==
                 IF rec = None THEN None
                 ELSE UNION { store_recommendation(r, outcomes[i]) : r \in rec }
         IN (IF stored_rec = None THEN <<>>
             ELSE <<[issue |-> i, row |-> CHOOSE r \in stored_rec : TRUE]>>)
            \o generate_from(issues, outcomes, i + 1)

generate_recommendations(issues, outcomes) == generate_from(issues, outcomes, 1)

\* the issue lists of the analysis results with at most MaxIssues issues
IssueLists ==
    { issues \in
        { detect_spf_issues(spf) \o detect_dkim_issues(dkim) \o detect_other_issues(other) :
            spf \in [record : BOOLEAN, lookup_count : {3, 11},
                     missing_ips : { [i \in 1..n |-> "google"] : n \in 0..MaxIssues }],
            dkim \in [high_failure : BOOLEAN, unsigned : BOOLEAN],
            other \in [many_failing_ips : BOOLEAN, misaligned : BOOLEAN] }
        \cup {ErrorResult.issues, NoDataResult.issues} :
      Len(issues) <= MaxIssues }

valid_statuses == {"pending", "in_progress", "completed", "dismissed", "failed"}
valid_actions == {"none", "acknowledged", "implementing", "completed", "dismissed"}

\* the values of the requests: every status and one that is none, one of the
\* user actions and one that is none
RequestStatuses == valid_statuses \cup {"archived"}
RequestActions == {"acknowledged", "ignored"}

\* what the request meets: nothing, get_supabase_client raising, the update
\* of the store raising
UpdateFaults == {"none", "client_raised", "update_raised"}

\* RecommendationEngine.update_recommendation_status: the rows after the
\* update and bool(result.data)
store_update(rows, recommendation_id, status, user_action, fault) ==
    IF fault = "update_raised" \/ recommendation_id \notin 1..Len(rows)
    THEN [rows |-> rows, success |-> FALSE]
    ELSE [rows |-> [rows EXCEPT ![recommendation_id].status = status,
                                ![recommendation_id].user_action = user_action],
          success |-> TRUE]

\* the handler without the validation of user_action
update_recommendation_statusAnyAction(rows, recommendation_id, status, user_action, fault) ==
    IF fault = "client_raised" \/ status \notin valid_statuses
    THEN [rows |-> rows, code |-> 500, update_issued |-> FALSE]
    ELSE LET u == store_update(rows, recommendation_id, status, user_action, fault)
         IN [rows |-> u.rows, code |-> IF u.success THEN 200 ELSE 500,
             update_issued |-> TRUE]

\* PUT /api/v1/recommendations/{recommendation_id}/status.  Every
\* HTTPException raised in the try block (400, 404) is caught by its
\* 'except Exception' and leaves as 500.
update_recommendation_status(rows, recommendation_id, status, user_action, fault) ==
    IF fault = "client_raised" \/ status \notin valid_statuses
       \/ user_action \notin valid_actions
    THEN [rows |-> rows, code |-> 500, update_issued |-> FALSE]
    ELSE LET u == store_update(rows, recommendation_id, status, user_action, fault)
         IN [rows |-> u.rows, code |-> IF u.success THEN 200 ELSE 500,
             update_issued |-> TRUE]

InitRecommendations ==
    /\ rec_issues \in IssueLists
    /\ recommendations = <<>>
    /\ rec_ret = NoValue
    /\ IdleIngest
    /\ IdleLimiter
    /\ IdleApi
    /\ IdleParser
    /\ IdleAnalysis
    /\ IdleCrypto
    /\ IdleRest

\* POST /api/v1/analysis/analyze/{domain}, from generate_recommendations on
CallGenerateRecommendations ==
    /\ Len(recommendations) + Len(rec_issues) <= MaxRows
    /\ \E outcomes \in [1..Len(rec_issues) -> StoreOutcomes] :
          LET stored_recommendations == generate_recommendations(rec_issues, outcomes)
          IN /\ recommendations' =
                    recommendations \o [i \in 1..Len(stored_recommendations) |->
                                            stored_recommendations[i].row]
             /\ rec_ret' = [fn |-> "generate_recommendations", outcomes |-> outcomes,
                            returned |-> stored_recommendations]
    /\ UNCHANGED <<rec_issues, core, analysisVars, cryptoVars, rest>>

CallUpdateRecommendationStatus ==
    /\ \E recommendation_id \in 1..(Len(recommendations) + 1),
          status \in RequestStatuses, user_action \in RequestActions,
          fault \in UpdateFaults :
          LET r == update_recommendation_status(recommendations, recommendation_id,
                                                status, user_action, fault)
          IN /\ recommendations' = r.rows
             /\ rec_ret' = [fn |-> "update_recommendation_status",
                            found |-> recommendation_id \in 1..Len(recommendations),
                            status |-> status, user_action |-> user_action,
                            code |-> r.code, update_issued |-> r.update_issued,
                            changed |-> r.rows # recommendations]
    /\ UNCHANGED <<rec_issues, core, analysisVars, cryptoVars, rest>>

\* the engine on its own: the analysis of a domain, time and again
SpecRecommendations == InitRecommendations /\ [][CallGenerateRecommendations]_vars

\* the recommendations of analysis results of at most one issue, and the
\* requests on them
InitStatus == InitRecommendations /\ Len(rec_issues) <= 1

NextStatus ==
    \/ CallGenerateRecommendations
    \/ CallUpdateRecommendationStatus

SpecStatus == InitStatus /\ [][NextStatus]_vars

(***************************************************************************)
(* Part VI.  The credential encryption: crypto.CredentialEncryption.  A    *)
(* key is named by the key_id it was created with (every created key is    *)
(* distinct); a ciphertext is the key it was made with, its plaintext and  *)
(* whether it is intact, for AES-GCM decrypts an intact ciphertext under   *)
(* its own key and raises InvalidTag otherwise.  The nonce is left out.    *)
(***************************************************************************)
MaxCredentials == 2

\* the values of secrets.token_hex, in the order they are drawn
KeyIds == << <<"a", "1">>, <<"a", "2">>, <<"b", "1">> >>
Credentials == {"secret1", "secret2"}

Corrupt == [file |-> "corrupt"]
KeyInfo(key_id, rotated_from) ==
    [file |-> "key_info", key_id |-> key_id, expired |-> FALSE,
     rotated_from |-> rotated_from]

\* what a call meets: nothing; the read of current_key.json raising; the
\* write of the backup raising; the write of current_key.json by
\* _create_new_key raising with the file truncated (create_write) or
\* untouched (create_open); the same for the second write of _rotate_key
\* (update_write, update_open); every write raising (disk); and for
\* _get_key_by_id the read of a backup file raising (backup_read).  The
\* faults that can show with the current key file as it is:
CryptoFaults(file) ==
    {"none"} \cup
    (IF file.file # "key_info" THEN {"create_write", "create_open", "disk"}
     ELSE IF ~file.expired THEN {"read"}
     ELSE {"read", "backup_write", "create_write", "create_open", "update_write",
           "update_open", "disk"})

\* the key ids in use, and the next value of secrets.token_hex
UsedIds ==
    (IF current_key_file.file = "key_info" THEN {current_key_file.key_id} ELSE {})
    \cup backup_keys \cup { e.key_id : e \in encrypted }
FreshIds == { i \in 1..Len(KeyIds) : KeyIds[i] \notin UsedIds }
HasFresh == FreshIds # {}
NewId ==
    IF HasFresh THEN KeyIds[CHOOSE i \in FreshIds : \A j \in FreshIds : i <= j] ELSE <<>>

\* _create_new_key: the file after it, and the key_info or the exception
create_new_key(file, fault) ==
    IF fault \in {"create_open", "disk"}
    THEN [raised |-> TRUE, file |-> file, created |-> FALSE]
    ELSE IF fault = "create_write"
    THEN [raised |-> TRUE, file |-> Corrupt, created |-> FALSE]
    ELSE [raised |-> FALSE, file |-> KeyInfo(NewId, None), key_info |-> KeyInfo(NewId, None),
          created |-> TRUE]

\* _rotate_key: the old key is written to the backups, the new key to the
\* current file; any exception is caught and the old key returned
rotate_key(old_key_info, backups, fault) ==
    IF fault \in {"backup_write", "disk"}
    THEN [raised |-> FALSE, file |-> old_key_info, backups |-> backups,
          key_info |-> old_key_info, created |-> FALSE]
    ELSE LET kept == backups \cup {old_key_info.key_id}
             new == create_new_key(old_key_info, fault)
         IN IF new.raised
            THEN [raised |-> FALSE, file |-> new.file, backups |-> kept,
                  key_info |-> old_key_info, created |-> FALSE]
            ELSE IF fault = "update_write"
            THEN [raised |-> FALSE, file |-> Corrupt, backups |-> kept,
                  key_info |-> old_key_info, created |-> TRUE]
            ELSE IF fault = "update_open"
            THEN [raised |-> FALSE, file |-> new.file, backups |-> kept,
                  key_info |-> old_key_info, created |-> TRUE]
            ELSE [raised |-> FALSE, file |-> KeyInfo(NewId, {old_key_info.key_id}),
                  backups |-> kept,
                  key_info |-> KeyInfo(NewId, {old_key_info.key_id}), created |-> TRUE]

\* _get_current_key_info: the current key, rotated when older than 30 days,
\* created when there is no file; 'if anything fails, create new key'
get_current_key_info(file, backups, fault) ==
    IF file.file = "key_info" /\ fault # "read"
    THEN IF file.expired THEN rotate_key(file, backups, fault)
         ELSE [raised |-> FALSE, file |-> file, backups |-> backups, key_info |-> file,
               created |-> FALSE]
    ELSE LET \* the call in the try block (no file) and the call of the except clause
             first == create_new_key(file, fault)
             again == create_new_key(first.file, IF fault = "disk" THEN fault ELSE "none")
             new == IF file.file = "absent" /\ first.raised THEN again ELSE first
         IN IF new.raised
            THEN [raised |-> TRUE, file |-> new.file, backups |-> backups,
                  created |-> FALSE]
            ELSE [raised |-> FALSE, file |-> new.file, backups |-> backups,
                  key_info |-> new.key_info, created |-> TRUE]

\* the name of the backup file of a key, up to the date: key_<key_id>_
\* (the prefix key_ is common to the name and to what it is compared with)
backup_filename(key_id) == key_id \o <<"_">>
startswith(name, prefix) ==
    Len(prefix) <= Len(name) /\ SubSeq(name, 1, Len(prefix)) = prefix

\* _get_key_by_id after _get_current_key_info returned key_info: the keys it
\* can return, one for each backup file os.listdir may give first; none
\* when it returns None
get_key_by_id(key_info, backups, key_id) ==
    IF key_info.key_id = key_id THEN {key_id}
    ELSE { b \in backups : startswith(backup_filename(b), key_id) }

\* AESGCM(key).decrypt
aesgcm_decrypt(key, ciphertext) ==
    IF ciphertext.intact /\ ciphertext.key = key THEN {ciphertext.plaintext} ELSE None

\* the key ids of the requests: those of the keys, their proper prefixes, one
\* that goes on into the date of a file name, one of no key
RequestedIds ==
    Range(KeyIds) \cup {<<>>, <<"a">>, <<"b">>, <<"a", "1", "_">>, <<"c", "3">>}

InitCrypto ==
    /\ current_key_file = NoFile
    /\ backup_keys = {}
    /\ encrypted = {}
    /\ crypto_ret = NoValue
    /\ IdleIngest
    /\ IdleLimiter
    /\ IdleApi
    /\ IdleParser
    /\ IdleAnalysis
    /\ IdleRecommendations
    /\ IdleRest

\* thirty days pass over the current key
KeyExpires ==
    /\ current_key_file.file = "key_info"
    /\ ~current_key_file.expired
    /\ current_key_file' = [current_key_file EXCEPT !.expired = TRUE]
    /\ UNCHANGED <<backup_keys, encrypted, crypto_ret, core, analysisVars, recVars, rest>>

CallEncryptCredential ==
    \E fault \in CryptoFaults(current_key_file) :
    \E r \in {get_current_key_info(current_key_file, backup_keys, fault)} :
    \E credential \in Credentials :
       /\ r.created => HasFresh
       /\ current_key_file' = r.file
       /\ backup_keys' = r.backups
       /\ IF r.raised
          THEN /\ crypto_ret' = [fn |-> "encrypt_credential", outcome |-> "raised"]
               /\ UNCHANGED encrypted
          ELSE LET pair == [ciphertext |-> [key |-> r.key_info.key_id,
                                            plaintext |-> credential, intact |-> TRUE],
                            key_id |-> r.key_info.key_id]
               IN /\ Cardinality(encrypted \cup {pair}) <= MaxCredentials
                  /\ encrypted' = encrypted \cup {pair}
                  /\ crypto_ret' = [fn |-> "encrypt_credential", outcome |-> "returned",
                                    value |-> pair]
       /\ UNCHANGED <<core, analysisVars, recVars, rest>>

\* decrypt_credential on a ciphertext that was returned, as it is or tampered with
CallDecryptCredential ==
    \E fault \in CryptoFaults(current_key_file) \cup {"backup_read"} :
    \E r \in {get_current_key_info(current_key_file, backup_keys, fault)} :
    \E e \in encrypted, intact \in BOOLEAN, key_id \in RequestedIds :
       LET ciphertext == [e.ciphertext EXCEPT !.intact = intact]
           keys == IF r.raised \/ fault = "backup_read" THEN None
                   ELSE get_key_by_id(r.key_info, r.backups, key_id)
       IN /\ r.created => HasFresh
          /\ current_key_file' = r.file
          /\ backup_keys' = r.backups
          /\ \/ /\ keys = None
                /\ crypto_ret' = [fn |-> "decrypt_credential", ciphertext |-> ciphertext,
                                  key_id |-> key_id, outcome |-> "raised"]
             \/ \E key \in keys :
                   LET plaintext == aesgcm_decrypt(key, ciphertext) IN
                   crypto_ret' =
                       IF plaintext = None
                       THEN [fn |-> "decrypt_credential", ciphertext |-> ciphertext,
                             key_id |-> key_id, outcome |-> "raised"]
                       ELSE [fn |-> "decrypt_credential", ciphertext |-> ciphertext,
                             key_id |-> key_id, outcome |-> "returned",
                             value |-> CHOOSE p \in plaintext : TRUE]
          /\ UNCHANGED <<encrypted, core, analysisVars, recVars, rest>>

NextCrypto ==
    \/ KeyExpires
    \/ CallEncryptCredential
    \/ CallDecryptCredential

SpecCrypto == InitCrypto /\ [][NextCrypto]_vars

(***************************************************************************)
(* Part VII: dmarc_parser.extract_attachment.  A payload is known by its   *)
(* first bytes, by what it really is, by the names of its entries when it  *)
(* is a ZIP archive, and by whether its content can be read to the end.    *)
(* A name is a pair of stem and extension.                                 *)
(***************************************************************************)
MaxEntries == 2

NoFilename == <<>>         \* filename: str = None

EntryNames == {<<"report", "xml">>, <<"other", "xml">>, <<"report", "XML">>,
               <<"readme", "txt">>}
Filenames == {NoFilename, <<"report", "zip">>, <<"report", "gz">>, <<"report", "xml">>}

\* a ZIP archive starts with PK, a gzip stream with 1f 8b; other bytes may
\* start with either
AttachmentPayloads ==
    { [starts |-> "PK", form |-> "zip", names |-> n, sound |-> s] :
        n \in UNION { [1..k -> EntryNames] : k \in 0..MaxEntries }, s \in BOOLEAN }
    \cup { [starts |-> "1f8b", form |-> "gzip", names |-> <<>>, sound |-> s] :
             s \in BOOLEAN }
    \cup { [starts |-> b, form |-> "other", names |-> <<>>, sound |-> TRUE] :
             b \in {"PK", "1f8b", "<?xml"} }

\* filename and filename.endswith('.' + ext)
endswith(filename, ext) == filename # NoFilename /\ filename[2] = ext

IsXmlName(name) == endswith(name, "xml")

Bytes(of, name) == [kind |-> "bytes", of |-> of, name |-> name]
ReturnsNone == [kind |-> "None", of |-> "nothing", name |-> <<>>]

\* the branch of extract_attachment the attachment takes
ZipBranch(payload, filename) == endswith(filename, "zip") \/ payload.starts = "PK"
GzipBranch(payload, filename) ==
    /\ ~ZipBranch(payload, filename)
    /\ endswith(filename, "gz") \/ payload.starts = "1f8b"

\* extract_attachment(payload, filename): an exception of ZipFile, zf.read or
\* gzip.decompress is logged and the payload returned; a loop over namelist()
\* that finds no name ending in .xml falls off the end of the function
extract_attachment(payload, filename) ==
    IF ZipBranch(payload, filename)
    THEN IF payload.form # "zip"
         THEN Bytes("payload", <<>>)
         ELSE LET xmls == SelectSeq(payload.names, IsXmlName) IN
              IF xmls = <<>> THEN ReturnsNone
              ELSE IF payload.sound THEN Bytes("entry", xmls[1])
              ELSE Bytes("payload", <<>>)
    ELSE IF GzipBranch(payload, filename)
    THEN IF payload.form = "gzip" /\ payload.sound
         THEN Bytes("inflated", <<>>)
         ELSE Bytes("payload", <<>>)
    ELSE Bytes("payload", <<>>)

InitExtract ==
    /\ attachment \in [payload : AttachmentPayloads, filename : Filenames]
    /\ extract_ret = NoValue
    /\ IdleIngest /\ IdleLimiter /\ IdleApi /\ IdleParser
    /\ IdleAnalysis /\ IdleRecommendations /\ IdleCrypto /\ IdleRace

CallExtractAttachment ==
    /\ extract_ret = NoValue
    /\ extract_ret' = [fn |-> "extract_attachment",
                       ret |-> extract_attachment(attachment.payload,
                                                  attachment.filename)]
    /\ UNCHANGED <<attachment, core, analysisVars, recVars, cryptoVars, raceVars>>

SpecExtract == InitExtract /\ [][CallExtractAttachment]_vars

(***************************************************************************)
(* Part VIII: two callers in _get_current_key_info at once, each system    *)
(* call on the key files a step.  open(path, 'w') empties the file and     *)
(* the content is there when json.dump and the close of the file are       *)
(* through; in between the file holds no JSON document.  Caller c draws    *)
(* KeyIds[c] from secrets.token_hex; the key that is there at the start    *)
(* has the third id.                                                       *)
(***************************************************************************)
Callers == {1, 2}
FirstKey == KeyIds[3]

NoLocals ==
    [op |-> "none", key_info |-> NoFile, new_key_info |-> NoFile, rotating |-> FALSE,
     read_partial |-> FALSE]

InitRace ==
    /\ \E expired \in BOOLEAN :
          current_key_file \in
              {NoFile, [KeyInfo(FirstKey, None) EXCEPT !.expired = expired]}
    /\ backup_keys = {}
    /\ encrypted =
          IF current_key_file = NoFile THEN {}
          ELSE {[ciphertext |-> [key |-> FirstKey, plaintext |-> "secret1",
                                 intact |-> TRUE],
                 key_id |-> FirstKey]}
    /\ crypto_ret = NoValue
    /\ key_pc = [c \in Callers |-> "idle"]
    /\ key_local = [c \in Callers |-> NoLocals]
    /\ IdleIngest /\ IdleLimiter /\ IdleApi /\ IdleParser
    /\ IdleAnalysis /\ IdleRecommendations /\ IdleExtract

RaceFrame == UNCHANGED <<crypto_ret, core, analysisVars, recVars, extractVars>>

\* encrypt_credential or decrypt_credential is called: both start with
\* _get_current_key_info
BeginCall(c) ==
    /\ key_pc[c] = "idle"
    /\ \E op \in {"encrypt_credential", "decrypt_credential"} :
          key_local' = [key_local EXCEPT ![c].op = op]
    /\ key_pc' = [key_pc EXCEPT ![c] = "exists"]
    /\ UNCHANGED <<current_key_file, backup_keys, encrypted>>
    /\ RaceFrame

\* if os.path.exists(self.current_key_file)
KeyFileExists(c) ==
    /\ key_pc[c] = "exists"
    /\ key_pc' = [key_pc EXCEPT ![c] =
                     IF current_key_file = NoFile THEN "create_open" ELSE "read"]
    /\ UNCHANGED <<current_key_file, backup_keys, encrypted, key_local>>
    /\ RaceFrame

\* open(..., 'r'), json.load, and the test of the age of the key; a file
\* that holds no document raises, and the except clause creates a new key
KeyFileRead(c) ==
    /\ key_pc[c] = "read"
    /\ IF current_key_file.file = "key_info"
       THEN /\ key_local' = [key_local EXCEPT ![c].key_info = current_key_file]
            /\ key_pc' = [key_pc EXCEPT ![c] =
                             IF current_key_file.expired THEN "backup" ELSE "use"]
       ELSE /\ key_local' = [key_local EXCEPT ![c].read_partial = TRUE]
            /\ key_pc' = [key_pc EXCEPT ![c] = "create_open"]
    /\ UNCHANGED <<current_key_file, backup_keys, encrypted>>
    /\ RaceFrame

\* _rotate_key: the old key is written to its backup file
KeyBackup(c) ==
    /\ key_pc[c] = "backup"
    /\ backup_keys' = backup_keys \cup {key_local[c].key_info.key_id}
    /\ key_local' = [key_local EXCEPT ![c].rotating = TRUE]
    /\ key_pc' = [key_pc EXCEPT ![c] = "create_open"]
    /\ UNCHANGED <<current_key_file, encrypted>>
    /\ RaceFrame

\* _create_new_key: the key is made and open(self.current_key_file, 'w')
\* empties the file
KeyCreateOpen(c) ==
    /\ key_pc[c] = "create_open"
    /\ key_local' = [key_local EXCEPT ![c].new_key_info = KeyInfo(KeyIds[c], None)]
    /\ current_key_file' = Corrupt
    /\ key_pc' = [key_pc EXCEPT ![c] = "create_dump"]
    /\ UNCHANGED <<backup_keys, encrypted>>
    /\ RaceFrame

\* _create_new_key: json.dump(key_info, f) and the close of the file
KeyCreateDump(c) ==
    /\ key_pc[c] = "create_dump"
    /\ current_key_file' = key_local[c].new_key_info
    /\ IF key_local[c].rotating
       THEN /\ key_pc' = [key_pc EXCEPT ![c] = "update_open"]
            /\ UNCHANGED key_local
       ELSE /\ key_pc' = [key_pc EXCEPT ![c] = "use"]
            /\ key_local' = [key_local EXCEPT ![c].key_info = key_local[c].new_key_info]
    /\ UNCHANGED <<backup_keys, encrypted>>
    /\ RaceFrame

\* _rotate_key: new_key_info['rotated_from'] = ...; open(..., 'w') again
KeyUpdateOpen(c) ==
    /\ key_pc[c] = "update_open"
    /\ key_local' = [key_local EXCEPT ![c].new_key_info =
                        KeyInfo(KeyIds[c], {key_local[c].key_info.key_id})]
    /\ current_key_file' = Corrupt
    /\ key_pc' = [key_pc EXCEPT ![c] = "update_dump"]
    /\ UNCHANGED <<backup_keys, encrypted>>
    /\ RaceFrame

\* _rotate_key: json.dump(new_key_info, f), the close, return new_key_info
KeyUpdateDump(c) ==
    /\ key_pc[c] = "update_dump"
    /\ current_key_file' = key_local[c].new_key_info
    /\ key_local' = [key_local EXCEPT ![c].key_info = key_local[c].new_key_info]
    /\ key_pc' = [key_pc EXCEPT ![c] = "use"]
    /\ UNCHANGED <<backup_keys, encrypted>>
    /\ RaceFrame

\* the caller goes on with the key it got: encrypt_credential returns the
\* ciphertext and the key_id
KeyUse(c) ==
    /\ key_pc[c] = "use"
    /\ encrypted' =
          IF key_local[c].op = "encrypt_credential"
          THEN encrypted \cup
                  {[ciphertext |-> [key |-> key_local[c].key_info.key_id,
                                    plaintext |-> "secret1", intact |-> TRUE],
                    key_id |-> key_local[c].key_info.key_id]}
          ELSE encrypted
    /\ key_pc' = [key_pc EXCEPT ![c] = "done"]
    /\ UNCHANGED <<current_key_file, backup_keys, key_local>>
    /\ RaceFrame

NextRace ==
    \E c \in Callers :
        \/ BeginCall(c)
        \/ KeyFileExists(c)
        \/ KeyFileRead(c)
        \/ KeyBackup(c)
        \/ KeyCreateOpen(c)
        \/ KeyCreateDump(c)
        \/ KeyUpdateOpen(c)
        \/ KeyUpdateDump(c)
        \/ KeyUse(c)

SpecRace == InitRace /\ [][NextRace]_vars

(***************************************************************************)
(* Vocabulary of the properties.                                           *)
(***************************************************************************)
\* the rows of dmarc_reports that carry the identity tuple of report d
RowsFor(d) ==
    { r \in dmarc_reports :
        r.user_id = user_id /\ r.report_id = d.report_id /\ r.org_name = d.org_name }

\* the rows of dmarc_records that belong to a row of report d
RecordsFor(d) ==
    { rec \in dmarc_records : \E r \in RowsFor(d) : rec.report_id = r.id }

Positions(p) == 1..Len(dmarc_emails[p])
UidAt(p, j) == dmarc_emails[p][j][1]
ErrorItems(p) ==
    { results[p].error_details[i].item : i \in 1..Len(results[p].error_details) }
ReportItems(p) ==
    { results[p].reports[i].item : i \in 1..Len(results[p].reports) }

\* message u is in the batch of run p and every attachment of it ended in an error
FailedEverywhere(p, u) ==
    /\ \E j \in Positions(p) : UidAt(p, j) = u
    /\ \A j \in Positions(p) : UidAt(p, j) = u => dmarc_emails[p][j] \in ErrorItems(p)

C2_FailedStoreIsRetried ==
    \A p \in Runs :
        /\ \A i \in 1..Len(results[p].error_details) :
              LET e == results[p].error_details[i] IN
              (e.error = "process" /\ FailedEverywhere(p, e.item[1])) => ~seen[e.item[1]]
        /\ (pc[p] = "returned" /\ runFaults[p] = 0) =>
              \A j \in Positions(p) :
                  LET d == PayloadOf(dmarc_emails[p][j]) IN
                  d.kind = "report" =>
                      \E r \in RowsFor(d) :
                          /\ r.status = "processed"
                          /\ RecordRows(r.id) \subseteq dmarc_records

(***************************************************************************)
(* C3: at the end of a run, every attachment that ended in an error entry  *)
(* belongs to a message that is still unread.                              *)
(***************************************************************************)
C3_ErrorEntriesStayUnread ==
    \A p \in Runs :
        pc[p] = "returned" => \A it \in ErrorItems(p) : ~seen[it[1]]

(***************************************************************************)
(* C4: a run is stopped after store_dmarc_report returned and before       *)
(* mark_email_as_read, the message being unread; when the next run returns *)
(* without any failure it has processed the same attachment again, storage *)
(* holds one row for the report's tuple with one copy of its records, the  *)
(* attachment is counted as no error, and the message is marked read.      *)
(***************************************************************************)
C4_Case(p) ==
    /\ pc[p] = "returned"
    /\ runFaults[p] = 0
    /\ faults = 1
    /\ stopPoint.at = "mark"
    /\ stopPoint.unread
    /\ runsStarted = stopPoint.run + 1

C5_SecondStoreReturnsFirst ==
    \A d \in ReportDocs :
        (~raised_for[d] /\ returned[d] # <<>>) =>
            /\ Cardinality(RowsFor(d)) = 1
            /\ \A r \in RowsFor(d) :
                  /\ \A i \in 1..Len(returned[d]) : returned[d][i] = r.id
                  /\ RecordsFor(d) \subseteq RecordRows(r.id)

C5_Witness ==
    \E d \in ReportDocs : ~raised_for[d] /\ Len(returned[d]) >= 2


(***************************************************************************)
(* C6: when two runs store the same (user_id, report_id, org_name) and     *)
(* nothing fails, then under every interleaving dmarc_reports holds at     *)
(* most one row for the tuple and dmarc_records one copy of its records.   *)
(***************************************************************************)
C6_OneRowUnderInterleaving ==
    faults = 0 =>
        \A d \in ReportDocs :
            /\ Cardinality(RowsFor(d)) <= 1
            /\ Cardinality(RecordsFor(d)) <= RecordsPerReport

(***************************************************************************)
(* C7: when a run returns and nothing has failed, results['duplicates']    *)
(* counts the attachments whose report was found already stored, none of   *)
(* them is counted as an error, and results['processed'] counts the other  *)
(* stored attachments, the reports the run inserted.                       *)
(***************************************************************************)
C7_DuplicatesCounted ==
    \A p \in Runs :
        (pc[p] = "returned" /\ faults = 0) =>
            /\ results[p].duplicates = Cardinality(hits[p])
            /\ results[p].processed = Cardinality(stored[p] \ hits[p])
            /\ \A j \in hits[p] : dmarc_emails[p][j] \notin ErrorItems(p)

(***************************************************************************)
(* C8: every attachment of the batch is processed exactly once: at the     *)
(* loop head the attachments before idx are each either in reports or in   *)
(* error_details, never both and never twice; errors = len(error_details)  *)
(* and processed = len(reports) throughout, and on return                  *)
(* processed + errors is the number of attachments.                        *)
(***************************************************************************)
C8_EveryAttachmentOnce ==
    \A p \in Runs :
        /\ results[p].errors = Len(results[p].error_details)
        /\ results[p].processed = Len(results[p].reports)
        /\ Cardinality(ReportItems(p) \cup ErrorItems(p))
              = results[p].processed + results[p].errors
        /\ pc[p] = "loop" =>
              ReportItems(p) \cup ErrorItems(p)
                  = { dmarc_emails[p][j] : j \in 1..(idx[p] - 1) }
        /\ pc[p] = "returned" =>
              /\ results[p].processed + results[p].errors = Len(dmarc_emails[p])
              /\ ReportItems(p) \cup ErrorItems(p)
                    = { dmarc_emails[p][j] : j \in Positions(p) }

C8_Witness ==
    \E p \in Runs :
        /\ pc[p] = "returned"
        /\ \E i, j \in Positions(p) :
              /\ i < j
              /\ dmarc_emails[p][i] \in ErrorItems(p)
              /\ dmarc_emails[p][j] \in ReportItems(p)

(***************************************************************************)
(* C9: a run calls connect_imap at most max_retries times and not again    *)
(* after a success; when max_retries calls have failed the run is on its   *)
(* way out with the exception pending, and no fetch, store or mark-read    *)
(* step has run.                                                           *)
(***************************************************************************)
C9_ConnectionRetries ==
    \A p \in Runs :
        /\ connects[p] <= max_retries
        /\ client[p] # "none" => connects[p] = attempt[p] + 1
        /\ (connects[p] = max_retries /\ client[p] = "none") =>
              /\ pc[p] \in {"audit_failed", "finally", "raised"}
              /\ exc[p]
              /\ fetches[p] = <<>>
              /\ stored[p] = {}
              /\ marked[p] = {}

C9_Witness ==
    \E p \in Runs : pc[p] = "raised" /\ connects[p] = max_retries /\ client[p] = "none"

(***************************************************************************)
(* C10: whenever process_dmarc_ingestion has raised, the run had handed a  *)
(* 'dmarc_ingestion_failed' event to the audit sink.                       *)
(***************************************************************************)
C10_RaiseIsAudited ==
    \A p \in Runs :
        pc[p] = "raised" => "dmarc_ingestion_failed" \in submitted[p]

(***************************************************************************)
(* C11: a run whose mailbox connection has succeeded does not raise, and a *)
(* run raises only after max_retries failed connection attempts.           *)
(***************************************************************************)
C11_RaisesOnlyOnConnectionFailure ==
    \A p \in Runs :
        /\ client[p] # "none" => (pc[p] # "raised" /\ ~exc[p])
        /\ pc[p] = "raised" => (connects[p] = max_retries /\ client[p] = "none")

(***************************************************************************)
(* C12: a step that hands an event to the audit sink has the same outcome  *)
(* whether the sink's insert succeeds or raises: the run goes on at the    *)
(* same place with the same counters, the same pending exception, the same *)
(* stored rows and the same flags; only audit_logs can differ.             *)
(***************************************************************************)
AuditSteps == {"audit_processed", "audit_completed", "audit_failed"}

C12_AuditSinkFailureIsInert ==
    [][ \A p \in Runs :
          (pc[p] \in AuditSteps /\ pc'[p] # pc[p] /\ pc'[p] # "stopped") =>
              /\ pc'[p] = (IF pc[p] = "audit_processed" THEN "loop" ELSE "finally")
              /\ results'[p].errors = results[p].errors
              /\ results'[p].error_details = results[p].error_details
              /\ results'[p].processed =
                    results[p].processed + (IF pc[p] = "audit_processed" THEN 1 ELSE 0)
              /\ Len(results'[p].reports) = results'[p].processed
              /\ exc'[p] = exc[p]
              /\ UNCHANGED <<mailVars, dbVars, last_polled, client, dmarc_emails>>
      ]_vars

\* a run has returned a report in its summary although the sink refused the event
C12_Witness ==
    \E p \in Runs :
        /\ pc[p] = "returned"
        /\ results[p].processed = 1
        /\ "dmarc_report_processed" \in submitted[p]
        /\ \A r \in audit_logs : r.action # "dmarc_report_processed"

(***************************************************************************)
(* C13: every batch a run fetches holds at most `limit` messages, all of   *)
(* them unread when searched; the attachments the run examines and the     *)
(* messages it marks read belong to the batch, and the unread messages     *)
(* left out of the batch are unread for as long as the run lasts and when  *)
(* it has ended.                                                           *)
(***************************************************************************)
C13_BatchIsCapped ==
    \A p \in Runs : \A i \in 1..Len(fetches[p]) :
        LET f == fetches[p][i] IN
        /\ Cardinality(f.messages) <= limit
        /\ f.messages \subseteq f.unseen
        /\ \A j \in Positions(p) : UidAt(p, j) \in f.messages
        /\ \A u \in f.unseen \ f.messages : ~seen[u]

\* a run has returned that marked a message of its batch read and left out
\* an unread message that carries a report
C13_Witness ==
    \E p \in Runs :
        /\ pc[p] = "returned"
        /\ marked[p] # {}
        /\ \E i \in 1..Len(fetches[p]) :
              /\ Cardinality(fetches[p][i].messages) = limit
              /\ \E u \in fetches[p][i].unseen \ fetches[p][i].messages :
                    \E k \in 1..Len(mailbox[u]) : mailbox[u][k] \in ReportDocs

(***************************************************************************)
(* Vocabulary of the limiter's properties.                                 *)
(***************************************************************************)
Checked == last_call.op = "is_rate_limited"
Recorded(success) == last_call.op = "record_attempt" /\ last_call.success = success

PerMinute == [is_limited |-> TRUE, reason |-> "Too many connection attempts per minute",
              retry_after |-> {60}]
PerHour == [is_limited |-> TRUE, reason |-> "Too many connection attempts per hour",
            retry_after |-> {3600}]
Free == [is_limited |-> FALSE, reason |-> "None", retry_after |-> {}]

(***************************************************************************)
(* C14: is_rate_limited, called for an owner with no active failure block, *)
(* returns (True, per-minute reason, 60) when the owner has 10 or more     *)
(* recorded attempts less than 60 seconds old, and (False, None, None)     *)
(* when there are fewer than 10 of those and fewer than 60 attempts less   *)
(* than 3600 seconds old.                                                  *)
(***************************************************************************)
C14_PerMinuteCeiling ==
    \A u \in Owners :
        (Checked /\ ~ActiveBlock(u)) =>
            /\ AttemptsWithin(u, 60) >= 10 => ret = PerMinute
            /\ (AttemptsWithin(u, 60) < 10 /\ AttemptsWithin(u, 3600) < 60) => ret = Free

\* ten attempts recorded, nothing else in the history: the check refuses
C14_Witness ==
    \E u \in Owners :
        /\ Checked
        /\ ~ActiveBlock(u)
        /\ u \in DOMAIN connection_attempts
        /\ Len(connection_attempts[u]) = 10
        /\ AttemptsWithin(u, 60) = 10
        /\ ret = PerMinute

C16_BackoffFromBase ==
    \A u \in Owners :
        Recorded(FALSE) =>
            LET n == failed_attempts[u] IN
            /\ n <= 5 => u \notin DOMAIN blocked_until
            /\ n >= 6 => (u \in DOMAIN blocked_until
                           /\ blocked_until[u] = now + 60 * 2^(n - 6))

(***************************************************************************)
(* C16 as amended: no block for n <= 5; the block lasts 120 seconds for    *)
(* n = 6, 240 for n = 7, doubles up to 1920 for n = 10, and is 3600        *)
(* seconds (backoff_max) from n = 11 on.                                   *)
(***************************************************************************)
C16_BackoffDoubles ==
    \A u \in Owners :
        Recorded(FALSE) =>
            LET n == failed_attempts[u] IN
            /\ n <= 5 => u \notin DOMAIN blocked_until
            /\ n = 6 => (u \in DOMAIN blocked_until /\ blocked_until[u] = now + 120)
            /\ n = 7 => (u \in DOMAIN blocked_until /\ blocked_until[u] = now + 240)
            /\ n \in 8..10 => (u \in DOMAIN blocked_until
                                /\ blocked_until[u] = now + 60 * 2^(n - 5))
            /\ n >= 11 => (u \in DOMAIN blocked_until /\ blocked_until[u] = now + 3600)

C16_Witness ==
    \E u \in Owners : Recorded(FALSE) /\ failed_attempts[u] = 11

(***************************************************************************)
(* C17: a record_attempt with success = True leaves the owner with no      *)
(* failure counter and no block, whatever came before; an is_rate_limited  *)
(* that follows at once does not answer with the failed-authentication     *)
(* block, and a failure that follows at once is counted as the first.      *)
(***************************************************************************)
C17_SuccessResets ==
    [][ \A u \in Owners :
          /\ (last_call'.op = "record_attempt" /\ last_call'.success) =>
                /\ Get(failed_attempts', u, 0) = 0
                /\ u \notin DOMAIN blocked_until'
          /\ (Recorded(TRUE) /\ last_call'.op = "is_rate_limited") =>
                ret'.reason # "Too many failed authentication attempts"
          /\ (Recorded(TRUE) /\ last_call'.op = "record_attempt" /\ ~last_call'.success) =>
                /\ failed_attempts'[u] = 1
                /\ u \notin DOMAIN blocked_until'
      ]_vars

\* a success has been recorded for an owner who was blocked
C17_Witness == Recorded(TRUE) /\ last_call.unblocked

(***************************************************************************)
(* C18: requests of one owner that call is_rate_limited, then connect,     *)
(* then record_attempt: the attempts let through in the last 60 seconds,   *)
(* recorded or under way, are never more than max_attempts_per_minute (10),*)
(* and those of the last 3600 seconds never more than                      *)
(* max_attempts_per_hour (60); no request is between its check and its     *)
(* record when another is checked.                                         *)
(***************************************************************************)
Underway == IF running = "create_imap_config" THEN 1 ELSE 0

C19_NoConnectionWhileLimited ==
    \A o \in opened : ~o.limited

(***************************************************************************)
(* C20: parse_dmarc_xml counts a record as passing iff its SPF result is   *)
(* 'pass' or its DKIM result is 'pass'; total_records is the sum of the    *)
(* counts of all records, pass_count the sum of the counts of the passing  *)
(* records, fail_count the rest; for the records {5, fail, fail},          *)
(* {10, pass, pass}, {2, fail, pass} it returns 17, 12 and 5.              *)
(***************************************************************************)
Passing(record_data) ==
    "pass" \in record_data.spf_result \cup record_data.dkim_result

RECURSIVE SumOfCounts(_, _)
SumOfCounts(records, I) ==
    IF I = {} THEN 0
    ELSE LET i == CHOOSE j \in I : TRUE
         IN records[i].count + SumOfCounts(records, I \ {i})

C20_SummaryCounts ==
    report_data.outcome = "returned" =>
        LET records == report_data.records
            passing == {i \in DOMAIN records : Passing(records[i])}
        IN  /\ report_data.total_records = SumOfCounts(records, DOMAIN records)
            /\ report_data.pass_count = SumOfCounts(records, passing)
            /\ report_data.fail_count = report_data.total_records - report_data.pass_count
            /\ report_data.pass_count + report_data.fail_count = report_data.total_records
            /\ xml_records = ExampleRecords =>
                  /\ report_data.total_records = 17
                  /\ report_data.pass_count = 12
                  /\ report_data.fail_count = 5

\* the example document has been parsed
C20_Witness ==
    /\ report_data.outcome = "returned"
    /\ xml_records = ExampleRecords
    /\ report_data.total_records = 17

(***************************************************************************)
(* C21: parse_dmarc_xml returns no report for a document that is not       *)
(* well-formed or that has a <record> without <row>: it raises ValueError  *)
(* with the text of the underlying error; in an ingestion run the          *)
(* attachment is counted as one error entry and nothing is stored for it.  *)
(***************************************************************************)
C21_MalformedReportRaises ==
    /\ (report_data.outcome # "none" /\ Unparsable) =>
          /\ report_data.outcome = "raised"
          /\ report_data.message[2] # None
          /\ xml_error # None => report_data.message[2] = xml_error
    /\ \A p \in Runs : \A j \in Positions(p) :
          (j < idx[p] /\ PayloadOf(dmarc_emails[p][j]).kind = "malformed") =>
              /\ Cardinality({i \in DOMAIN results[p].error_details :
                     results[p].error_details[i].item = dmarc_emails[p][j]}) = 1
              /\ dmarc_emails[p][j] \notin ReportItems(p)
              /\ j \notin stored[p]

\* a document with a <record> without <row> has been handed to the parser
C21_Witness ==
    /\ report_data.outcome = "raised"
    /\ xml_error = None
    /\ Len(xml_records) = 2

(***************************************************************************)
(* C22: every record of a returned report has a count of 1 or more.        *)
(***************************************************************************)
C22_CountAtLeastOne ==
    report_data.outcome = "returned" =>
        \A i \in DOMAIN report_data.records : report_data.records[i].count >= 1

(***************************************************************************)
(* C23: analyze_domain_reports always returns a result: with status        *)
(* 'error' and score 0 when a store query or the computation failed, with  *)
(* status 'no_data', score 0 and one issue when the window has no report.  *)
(***************************************************************************)
ExceptionOccurred ==
    \/ analysis_result.failure = "reports_query"
    \/ /\ analysis_input.reports = "some"
       /\ analysis_result.failure # "none" \/ analyze_spf_failuresRaises

C23_AnalysisNeverRaises ==
    analysis_result # NoResult =>
        LET r == analysis_result.result IN
        /\ r.outcome = "returned"
        /\ ExceptionOccurred => (r.status = "error" /\ r.health_score = 0)
        /\ (~ExceptionOccurred /\ analysis_input.reports = "empty") =>
              (r.status = "no_data" /\ r.health_score = 0 /\ Len(r.issues) = 1)

\* the query of the detailed records failed after reports were found
C23_Witness ==
    /\ analysis_result # NoResult
    /\ analysis_input.reports = "some"
    /\ analysis_result.failure = "records_query"
    /\ analysis_result.result.status = "error"

(***************************************************************************)
(* C24: _calculate_health_score returns an integer from 0 to 100, and for  *)
(* the same issues and SPF and DKIM analyses a higher failure rate never   *)
(* gives a higher score.                                                   *)
(***************************************************************************)
C24_ScoreClampedAndMonotone ==
    /\ fn_ret.fn = "calculate_health_score" =>
          /\ fn_ret.value \in 0..100
          /\ \A higher \in Rates :
                higher > fn_ret.failure_rate =>
                    calculate_health_score(higher, fn_ret.issues, fn_ret.spf, fn_ret.dkim)
                        <= fn_ret.value
    /\ (analysis_result # NoResult /\ analysis_result.result.outcome = "returned") =>
          analysis_result.result.health_score \in 0..100

\* penalties beyond 100 points: the clamp at 0 is what keeps the score in range
C24_Witness ==
    /\ fn_ret.fn = "calculate_health_score"
    /\ fn_ret.value = 0
    /\ fn_ret.failure_rate = 100 * RateUnits
    /\ Len(fn_ret.issues) = 2
    /\ ~fn_ret.spf.record

(***************************************************************************)
(* C25: _determine_analysis_status returns 'excellent' iff score >= 90 and *)
(* rate < 5, else 'good' iff score >= 75 and rate < 15, else 'warning' iff *)
(* score >= 50 and rate < 30, else 'critical'; anomalies_detected of a     *)
(* result is the number of its issues of severity critical or high.        *)
(***************************************************************************)
C25_StatusThresholds ==
    /\ fn_ret.fn = "determine_analysis_status" =>
          LET score == fn_ret.health_score
              rate == fn_ret.failure_rate
              excellent == score >= 90 /\ rate < 5 * RateUnits
              good == ~excellent /\ score >= 75 /\ rate < 15 * RateUnits
              warning == ~excellent /\ ~good /\ score >= 50 /\ rate < 30 * RateUnits
          IN  /\ fn_ret.value = "excellent" <=> excellent
              /\ fn_ret.value = "good" <=> good
              /\ fn_ret.value = "warning" <=> warning
              /\ fn_ret.value = "critical" <=> (~excellent /\ ~good /\ ~warning)
    /\ (analysis_result # NoResult /\ analysis_result.result.outcome = "returned") =>
          LET r == analysis_result.result IN
          r.anomalies_detected =
              Cardinality({i \in DOMAIN r.issues : r.issues[i].severity \in {"critical", "high"}})

\* a score of 90 with a failure rate of exactly 5 percent
C25_Witness ==
    /\ fn_ret.fn = "determine_analysis_status"
    /\ fn_ret.health_score = 90
    /\ fn_ret.failure_rate = 5 * RateUnits
    /\ fn_ret.value = "good"

\* the issue types with a plan, and the positions of the issues that have one
PlannedTypes ==
    {"spf_missing", "spf_missing_provider", "spf_lookup_limit", "dkim_high_failure",
     "pattern_many_failing_ips"}
Qualifying == { i \in 1..Len(rec_issues) : rec_issues[i].type \in PlannedTypes }

\* the returned recommendations are those of the issues at positions P, in
\* issue order, each pending and without user action
ReturnedExactlyFor(P) ==
    LET recs == rec_ret.returned IN
    /\ { recs[k].issue : k \in 1..Len(recs) } = P
    /\ \A k \in 1..Len(recs), l \in 1..Len(recs) :
          k < l => recs[k].issue < recs[l].issue
    /\ \A k \in 1..Len(recs) :
          /\ recs[k].row.status = "pending"
          /\ recs[k].row.user_action = "none"

C27_InvalidUpdateRejected ==
    (/\ rec_ret.fn = "update_recommendation_status"
     /\ \/ rec_ret.status \notin
              {"pending", "in_progress", "completed", "dismissed", "failed"}
        \/ rec_ret.user_action \notin
              {"none", "acknowledged", "implementing", "completed", "dismissed"})
    => /\ rec_ret.code >= 400
       /\ ~rec_ret.update_issued
       /\ ~rec_ret.changed

\* a request for an existing recommendation with a valid status and an
\* unknown user action, refused
C27_Witness ==
    /\ rec_ret.fn = "update_recommendation_status"
    /\ rec_ret.found
    /\ rec_ret.status = "completed"
    /\ rec_ret.user_action = "ignored"
    /\ rec_ret.code = 500
    /\ ~rec_ret.update_issued

Terminal == {"completed", "dismissed", "failed"}
Rank(status) ==
    CASE status = "pending" -> 0
      [] status = "in_progress" -> 1
      [] OTHER -> 2

(***************************************************************************)
(* C28: in every step each recommendation stays in the table, a change of  *)
(* a row comes from a status update, and a status that changes moves       *)
(* forward along pending, in_progress, then completed, dismissed or        *)
(* failed: never backwards and never out of a terminal status.             *)
(***************************************************************************)
C28_StatusOnlyForward ==
    [][/\ Len(recommendations') >= Len(recommendations)
       /\ \A i \in 1..Len(recommendations) :
             LET old == recommendations[i]
                 new == recommendations'[i]
             IN /\ new.recommendation_type = old.recommendation_type
                /\ new # old => rec_ret'.fn = "update_recommendation_status"
                /\ Rank(new.status) >= Rank(old.status)
                /\ old.status \in Terminal => new.status = old.status]_vars

\* the keys decrypt_credential can be asked for by their identifier
KnownIds ==
    (IF current_key_file.file = "key_info" THEN {current_key_file.key_id} ELSE {})
    \cup backup_keys

(***************************************************************************)
(* C29: decrypt_credential returns a string only when key_id is exactly    *)
(* the identifier of the current key or of an archived key and the         *)
(* ciphertext is an unmodified output of encrypt_credential under that     *)
(* key; any other key_id and any tampered ciphertext make it raise.        *)
(***************************************************************************)
C29_DecryptsOnlyWithExactKeyId ==
    (crypto_ret.fn = "decrypt_credential" /\ crypto_ret.outcome = "returned") =>
        /\ crypto_ret.key_id \in KnownIds
        /\ crypto_ret.ciphertext.intact
        /\ crypto_ret.ciphertext.key = crypto_ret.key_id
        /\ crypto_ret.value = crypto_ret.ciphertext.plaintext

(***************************************************************************)
(* C30: every (ciphertext, key_id) pair encrypt_credential ever returned   *)
(* can still be decrypted: its key is the current key or is among the      *)
(* archived keys, whatever encryptions, decryptions, rotations and         *)
(* failures came since.                                                    *)
(***************************************************************************)
C30_ReturnedPairsStayDecryptable ==
    \A e \in encrypted :
        /\ e.key_id \in KnownIds
        /\ aesgcm_decrypt(e.key_id, e.ciphertext) = {e.ciphertext.plaintext}

\* min(backoff_base * 2^min(n - max_failed_attempts, 6), backoff_max), in numbers
BlockSeconds(n) ==
    IF n <= 5 THEN 0
    ELSE LET excess == IF n - 5 < 6 THEN n - 5 ELSE 6
             doubled == 60 * 2^excess
         IN IF doubled < 3600 THEN doubled ELSE 3600

(***************************************************************************)
(* C32: a block of an owner ends BlockSeconds(n) seconds after the failed  *)
(* attempt that set it, n being the owner's consecutive failures; the      *)
(* length is 0 up to max_failed_attempts, does not decrease with n and is  *)
(* never more than backoff_max (3600 seconds).                             *)
(***************************************************************************)
C32_BackoffBounded ==
    \A u \in DOMAIN blocked_until :
        /\ u \in DOMAIN connection_attempts
        /\ u \in DOMAIN failed_attempts
        /\ LET attempts == connection_attempts[u]
               n == failed_attempts[u]
               length == blocked_until[u] - attempts[Len(attempts)]
           IN /\ length = BlockSeconds(n)
              /\ length <= 3600
              /\ \A k \in 0..n :
                    /\ calculate_backoff_time(k) = BlockSeconds(k)
                    /\ k < n => calculate_backoff_time(k) <= calculate_backoff_time(k + 1)
                    /\ k <= 5 => calculate_backoff_time(k) = 0

\* the eleventh consecutive failure: 60 * 2^6 is over the ceiling
C32_Witness ==
    \E u \in DOMAIN blocked_until :
        /\ Get(failed_attempts, u, 0) = 11
        /\ blocked_until[u] = now + 3600
        /\ 60 * 2^6 > 3600

(***************************************************************************)
(* C33: when is_rate_limited has just run the purge, an owner without an   *)
(* attempt in the last 3600 seconds and without an unexpired block has no  *)
(* attempt timestamps, no consecutive-failure counter and no block expiry  *)
(* left in the limiter.                                                    *)
(***************************************************************************)
C33_PurgeLeavesNoStaleState ==
    (last_call.op = "is_rate_limited" /\ last_cleanup = now) =>
        \A u \in Owners :
            (/\ \A i \in DOMAIN Get(connection_attempts, u, <<>>) :
                   connection_attempts[u][i] <= now - 3600
             /\ u \in DOMAIN blocked_until => blocked_until[u] <= now)
            => /\ Get(connection_attempts, u, <<>>) = <<>>
               /\ u \notin DOMAIN failed_attempts
               /\ u \notin DOMAIN blocked_until

(***************************************************************************)
(* C34: a step in which an ingestion run makes a connect_imap call for an  *)
(* owner also records one attempt of that owner in the limiter.            *)
(***************************************************************************)
C34_EveryConnectionRecorded ==
    [][opened' # opened =>
          \E u \in Owners :
              Len(Get(connection_attempts', u, <<>>)) =
                  Len(Get(connection_attempts, u, <<>>)) + 1]_vars

HasReport(u) == \E k \in 1..Len(mailbox[u]) : mailbox[u][k] \in ReportDocs

C35_ExtractAlwaysBytes ==
    extract_ret.fn = "extract_attachment" =>
        LET payload == attachment.payload
            filename == attachment.filename
            xmls == SelectSeq(payload.names, IsXmlName)
            data == extract_ret.ret
        IN  /\ data.kind = "bytes"
            /\ IF ZipBranch(payload, filename) /\ payload.form = "zip"
                  /\ payload.sound /\ xmls # <<>>
               THEN data = Bytes("entry", xmls[1])
               ELSE IF GzipBranch(payload, filename) /\ payload.form = "gzip"
                       /\ payload.sound
               THEN data = Bytes("inflated", <<>>)
               ELSE data = Bytes("payload", <<>>)

\* C36: _detect_spf_issues returns one issue for every entry of missing_ips,
\* whatever their number: a high 'spf_missing_provider' issue for an entry of
\* a known provider and an issue of another type for an entry of none
C36_EveryMissingIpHasIssue ==
    fn_ret.fn = "detect_spf_issues" =>
        LET ips == fn_ret.spf.missing_ips
            about_ips ==
                SelectSeq(fn_ret.value,
                          LAMBDA i : i.type \notin {"spf_missing", "spf_lookup_limit"})
        IN  /\ Len(about_ips) = Len(ips)
            /\ Len(SelectSeq(about_ips,
                             LAMBDA i : i = Issue("spf_missing_provider", "high")))
                  = Len(SelectSeq(ips, HasProviderInfo))

\* C37: with reports in the window and no failing query, the result of
\* analyze_domain_reports has one of the four statuses of an analysis, the
\* failure rate of the reports and the health score computed from it
C37_ValidDataIsAnalysed ==
    (/\ analysis_result # NoResult
     /\ analysis_input.reports = "some"
     /\ analysis_result.failure = "none") =>
        LET r == analysis_result.result IN
        /\ r.status \in {"excellent", "good", "warning", "critical"}
        /\ r.failure_rate = analysis_input.failure_rate
        /\ r.health_score =
              calculate_health_score(analysis_input.failure_rate, r.issues,
                                     analysis_input.spf, analysis_input.dkim)

\* C31: whatever the interleaving of two calls, none of them reads a key file
\* that is partly written, and when both are through there is one current key
\* and every key a ciphertext was returned under is the current key or in the
\* backups
C31_KeyFileSafeUnderConcurrency ==
    /\ \A c \in Callers : ~key_local[c].read_partial
    /\ (\A c \in Callers : key_pc[c] = "done") =>
          /\ current_key_file.file = "key_info"
          /\ \A e \in encrypted :
                e.key_id = current_key_file.key_id \/ e.key_id \in backup_keys

====
